---- MODULE Spec2Model ----
(***************************************************************************)
(* A model of llmprism's run orchestrator (the useMultiModelRun hook), of   *)
(* its credential vault (AppProvider's unlockVault / lockVault /           *)
(* saveApiKeys over lib/crypto and lib/storage), of its routing rules and  *)
(* their editor (RoutingRulesEditor), of the adapters' connection tests    *)
(* (SettingsDialog), of the persisted workspaces, threads and messages     *)
(* (lib/storage) and of the prompt editor (PromptEditor).                  *)
(*                                                                         *)
(* The orchestrator is modelled at the granularity of JavaScript tasks:    *)
(* one action is one synchronous stretch of code, from a call or a         *)
(* provider completion to the next await that waits for the network.       *)
(* React's functional state updates are applied in the order queued.       *)
(***************************************************************************)
EXTENDS Integers, Sequences, FiniteSets, TLC

VARIABLES
    statuses,          \* useState<ModelRunStatus[]>: the per-task records, in id order
    isRunning,         \* useState(false)
    abortControllers,  \* abortControllersRef: modelId -> the controller registered last
    attempts,          \* the runSingleModel invocations made so far (each owns a controller)
    runs,              \* the run() calls made so far and what each returned
    delivered,         \* the responses handed to onResponse
    blob,              \* localStorage[API_KEYS]: the persisted encrypted blob
    session,           \* sessionStorage: the entries _pk and _pk_unlocked
    apiKeys,           \* useState<ApiKeys>({}): the in-memory credential set
    isUnlocked,        \* useState(false)
    hasStoredKeys,     \* useState(hasApiKeysStored())
    saltCounter,       \* the random salts/ivs drawn so far (each save draws a fresh one)
    lastCall,          \* history: the vault call that produced the current state
    saveTrail,         \* history: how far the sequence save(C, P); lock(); unlock(P) has got
    localRules,        \* RoutingRulesEditor: useState<RoutingRule[]>(routingRules)
    routingRules,      \* AppProvider: useState<RoutingRule[]>([]), the active rule list
    storedRules,       \* localStorage[ROUTING_RULES]: the persisted rule list
    routingRulesOpen,  \* the editor dialog's `open` prop
    simulatePromptLength, \* RoutingRulesEditor: useState(1000)
    preset,            \* AppProvider: useState<Preset>('research')
    promptHasCode,     \* whether the prompt being routed contains code
    simulationResult,  \* useMemo: simulateRouting(localRules, preset, simulatePromptLength)
    jsonError,         \* RoutingRulesEditor: useState<string | null>(null)
    testing,           \* SettingsDialog: useState<string | null>(null)
    testResults,       \* SettingsDialog: useState<Record<string, boolean | null>>({})
    probes,            \* the testConnection calls awaiting their provider
    workspaces,        \* localStorage[WORKSPACES]
    threads,           \* localStorage[THREADS]
    messages,          \* localStorage[MESSAGES]
    prompt,            \* PromptEditor: useState('')
    selectedModels,    \* PromptEditor: useState<string[]>(defaultModels.slice(0, 2) || [])
    currentThread,     \* AppProvider: useState<Thread | null>(null)
    settings,          \* AppProvider: useState<Settings>(getSettings())
    storedSettings,    \* localStorage[SETTINGS]
    vaultCalls         \* the unlockVault / saveApiKeys calls that reached their await

orchVars == <<statuses, isRunning, abortControllers, attempts, runs, delivered>>
vaultVars ==
    <<blob, session, apiKeys, isUnlocked, hasStoredKeys, saltCounter, lastCall, saveTrail>>
ruleVars ==
    <<localRules, routingRules, storedRules, routingRulesOpen, simulatePromptLength,
      preset, promptHasCode, simulationResult, jsonError>>
testVars == <<testing, testResults, probes>>
storeVars == <<workspaces, threads, messages>>
promptVars == <<prompt, selectedModels, currentThread, settings, storedSettings>>
appVars == <<ruleVars, testVars, storeVars, promptVars, vaultCalls>>
vars == <<orchVars, vaultVars, appVars>>

(***************************************************************************)
(* Bounds of the model.                                                    *)
(***************************************************************************)
MaxAttempts == 3
MaxRuns == 2
MaxSaves == 2

ModelIds == {"openai:gpt-4o", "anthropic:claude"}
Providers == {"openai", "anthropic"}

Undefined == "undefined"

\* parseModelId: the provider is the part of the id before the first colon.
parseModelId(modelId) ==
    IF modelId = "openai:gpt-4o" THEN "openai" ELSE "anthropic"

\* The hook's options at the time of a call: demoMode and the providers that
\* have a credential (which demo mode does not read).
Options ==
    {o \in [demoMode : BOOLEAN, apiKeys : SUBSET Providers] :
        o.demoMode => o.apiKeys = {}}

\* A mutant of HasCredential: the credential lookup is skipped.
HasCredentialAlways(opts, modelId) == TRUE

\* `demoMode` skips the credential lookup; otherwise `!adapter || !apiKey` decides.
HasCredential(opts, modelId) ==
    opts.demoMode \/ parseModelId(modelId) \in opts.apiKeys

Terminal == {"success", "error", "cancelled"}
Transient == {"pending", "running"}

\* Sequences over S without repetition, of length 1..Cardinality(S).
RECURSIVE Perms(_)
Perms(S) ==
    IF S = {} THEN {<<>>}
    ELSE UNION {{<<x>> \o p : p \in Perms(S \ {x})} : x \in S}

IdLists == UNION {Perms(T) : T \in (SUBSET ModelIds) \ {{}}}

Range(s) == {s[i] : i \in DOMAIN s}

\* A mutant of MapStatus: the patch is applied to every record.
MapEveryStatus(sts, modelId, patch) ==
    [i \in DOMAIN sts |->
        [f \in DOMAIN sts[i] |->
            IF f \in DOMAIN patch THEN patch[f] ELSE sts[i][f]]]

\* prev.map(s => s.modelId === modelId ? { ...s, ...patch } : s)
MapStatus(sts, modelId, patch) ==
    [i \in DOMAIN sts |->
        IF sts[i].modelId = modelId
        THEN [f \in DOMAIN sts[i] |->
                 IF f \in DOMAIN patch THEN patch[f] ELSE sts[i][f]]
        ELSE sts[i]]

\* The record run() creates for each selected model (provider and model are
\* functions of modelId). A response is named by the attempt that received it;
\* 0 stands for none.
InitialStatus(modelId) ==
    [modelId |-> modelId, status |-> "pending", response |-> 0,
     error |-> Undefined, canRetry |-> Undefined]

StatusOf(sts, modelId) ==
    IF \E i \in DOMAIN sts : sts[i].modelId = modelId
    THEN (CHOOSE s \in Range(sts) : s.modelId = modelId).status
    ELSE Undefined

(***************************************************************************)
(* The run orchestrator.                                                   *)
(***************************************************************************)

\* One invocation of runSingleModel. `result` is "inflight" while its provider
\* call is awaited and then what it did: "response" (it returned the response,
\* having written `success`), "error" or "cancelled" (it returned null, having
\* written that status), "threw" (its promise rejected). `aborted` is its
\* AbortController's signal, kept while the call is in flight (nothing reads it
\* afterwards).
NewAttempt(modelId, r, has) ==
    [modelId |-> modelId, run |-> r,
     result |-> IF has THEN "inflight" ELSE "error",
     aborted |-> FALSE]

InFlight(atts, modelId) ==
    {b \in DOMAIN atts : atts[b].modelId = modelId /\ atts[b].result = "inflight"}

\* runSingleModel up to its first await: register a fresh controller, mark the
\* task running, and fail at once when the provider has no credential.
\* `st` carries the statuses, the controller map and the attempts.
Launch(st, modelId, r, opts) ==
    LET a == Len(st.attempts) + 1
        has == HasCredential(opts, modelId)
        running == MapStatus(st.statuses, modelId,
                       [status |-> "running", error |-> Undefined,
                        canRetry |-> "false"])
    IN [statuses |->
            IF has THEN running
            ELSE MapStatus(running, modelId,
                     [status |-> "error", error |-> "No API key configured",
                      canRetry |-> "true"]),
        ctl |-> [st.ctl EXCEPT ![modelId] = a],
        attempts |-> Append(st.attempts, NewAttempt(modelId, r, has))]

\* selectedModels.map(modelId => runSingleModel(modelId, prompt)), in order.
RECURSIVE LaunchAll(_, _, _, _)
LaunchAll(st, ids, r, opts) ==
    IF ids = <<>> THEN st
    ELSE LaunchAll(Launch(st, Head(ids), r, opts), Tail(ids), r, opts)

AttemptsOf(atts, r) == {a \in DOMAIN atts : atts[a].run = r}

\* A mutant of JoinReady: the join fires on the first completion.
JoinReadyRace(atts, r) ==
    \E a \in AttemptsOf(atts, r) : atts[a].result # "inflight"

\* Promise.all: fulfilled once every runSingleModel promise of the run is.
JoinReady(atts, r) ==
    \A a \in AttemptsOf(atts, r) : atts[a].result # "inflight"

\* results.filter(r => r !== null): the run's responses, in id order. A response
\* is named by the attempt that received it; the scan starts at attempt a.
RECURSIVE RunReturn(_, _, _)
RunReturn(atts, r, a) ==
    IF a > Len(atts) THEN <<>>
    ELSE (IF atts[a].run = r /\ atts[a].result = "response" THEN <<a>> ELSE <<>>)
         \o RunReturn(atts, r, a + 1)

\* The continuation of run() after `await Promise.all(...)`, applied to the
\* run record: rejected as soon as one promise rejects, resolved when all are
\* fulfilled.
Settle(run, atts, r) ==
    IF run.state # "pending" THEN run
    ELSE IF \E a \in AttemptsOf(atts, r) : atts[a].result = "threw"
         THEN [run EXCEPT !.state = "rejected"]
    ELSE IF JoinReady(atts, r)
         THEN [run EXCEPT !.state = "resolved", !.ret = RunReturn(atts, r, 1)]
    ELSE run

NoControllers == [m \in ModelIds |-> 0]

\* run(prompt, selectedModels), for a non-empty list of distinct model ids:
\* what the hook does to its own state.
run(ids, opts) ==
    /\ Len(runs) < MaxRuns
    /\ Len(attempts) + Len(ids) <= MaxAttempts
    /\ LET r == Len(runs) + 1
           st == LaunchAll([statuses |-> [i \in DOMAIN ids |-> InitialStatus(ids[i])],
                            ctl |-> NoControllers,
                            attempts |-> attempts], ids, r, opts)
           run == Settle([state |-> "pending", ret |-> <<>>], st.attempts, r)
       IN /\ statuses' = st.statuses
          /\ abortControllers' = st.ctl
          /\ attempts' = st.attempts
          /\ runs' = Append(runs, run)
          /\ isRunning' = (run.state # "resolved")
    /\ UNCHANGED delivered

\* run() called on the hook alone.
Run(ids, opts) == run(ids, opts) /\ UNCHANGED <<vaultVars, appVars>>

\* retry(modelId, prompt): one more runSingleModel on the same status slot.
retry(modelId, opts) ==
    /\ Len(attempts) < MaxAttempts
    /\ LET st == Launch([statuses |-> statuses, ctl |-> abortControllers,
                         attempts |-> attempts], modelId, 0, opts)
       IN /\ statuses' = st.statuses
          /\ abortControllers' = st.ctl
          /\ attempts' = st.attempts
    /\ UNCHANGED <<isRunning, runs, delivered>>

\* retry() called on the hook alone.
Retry(modelId, opts) == retry(modelId, opts) /\ UNCHANGED <<vaultVars, appVars>>

\* A mutant of AbortedAfterAwait: the abort signal is not consulted.
AbortIgnored(att) == FALSE

\* `abortController.signal.aborted`, read after the provider call settled
\* (after the await, and in the catch block).
AbortedAfterAwait(att) == att.aborted

\* A mutant of CatchResult: the catch block rethrows.
CatchRethrows == "threw"

\* The catch block of runSingleModel writes `error` and ends in `return null`.
CatchResult == "error"

\* A mutant of ErrorStatuses: only the status is written.
ErrorNoRetry(sts, modelId) == MapStatus(sts, modelId, [status |-> "error"])

\* s.modelId === modelId ? { ...s, status: 'error', error: err.message, canRetry: true } : s
ErrorStatuses(sts, modelId) ==
    MapStatus(sts, modelId,
        [status |-> "error", error |-> "provider error", canRetry |-> "true"])

\* The provider call of attempt a settles, with a response (outcome "ok") or
\* by throwing (outcome "fail"): runSingleModel from the await to its return,
\* and, when this was the run's last pending promise, run()'s continuation.
ProviderReturns(a, outcome) ==
    /\ a \in DOMAIN attempts
    /\ attempts[a].result = "inflight"
    /\ LET att == attempts[a]
           cancelled == AbortedAfterAwait(att)
           ok == ~cancelled /\ outcome = "ok"
           res == IF cancelled THEN "cancelled"
                  ELSE IF ok THEN "response" ELSE CatchResult
           atts == [attempts EXCEPT ![a] = [@ EXCEPT !.result = res]]
           r == att.run
       IN /\ attempts' = atts
          /\ statuses' =
                 IF cancelled THEN MapStatus(statuses, att.modelId, [status |-> "cancelled"])
                 ELSE IF ok THEN MapStatus(statuses, att.modelId,
                                     [status |-> "success", response |-> a])
                 ELSE ErrorStatuses(statuses, att.modelId)
          /\ delivered' = IF ok THEN delivered \cup {a} ELSE delivered
          /\ runs' = IF r = 0 THEN runs
                     ELSE [runs EXCEPT ![r] = Settle(runs[r], atts, r)]
          /\ isRunning' = IF r # 0 /\ runs[r].state = "pending"
                             /\ Settle(runs[r], atts, r).state = "resolved"
                          THEN FALSE ELSE isRunning
    /\ UNCHANGED abortControllers

\* A provider call settles, on the hook alone (onResponse is recorded in
\* `delivered` and does nothing else).
Complete(a, outcome) ==
    ProviderReturns(a, outcome) /\ UNCHANGED <<vaultVars, appVars>>

\* A mutant of Abort: every in-flight attempt is aborted.
AbortEvery(atts, cs) ==
    [a \in DOMAIN atts |->
        IF atts[a].result = "inflight"
        THEN [atts[a] EXCEPT !.aborted = TRUE]
        ELSE atts[a]]

\* controller.abort() on the controllers of the attempts in `cs`.
Abort(atts, cs) ==
    [a \in DOMAIN atts |->
        IF a \in cs /\ atts[a].result = "inflight"
        THEN [atts[a] EXCEPT !.aborted = TRUE]
        ELSE atts[a]]

\* cancel(modelId)'s status update: s.modelId === modelId ? {...s, status: 'cancelled'} : s
CancelOneStatuses(sts, modelId) == MapStatus(sts, modelId, [status |-> "cancelled"])

\* cancel(modelId): acts only when a controller is registered for the id.
cancelOne(modelId) ==
    /\ LET c == abortControllers[modelId]
       IN IF c # 0
          THEN /\ attempts' = Abort(attempts, {c})
               /\ statuses' = CancelOneStatuses(statuses, modelId)
          ELSE UNCHANGED <<attempts, statuses>>
    /\ UNCHANGED <<isRunning, abortControllers, runs, delivered>>

CancelOne(modelId) == cancelOne(modelId) /\ UNCHANGED <<vaultVars, appVars>>

Registered == {abortControllers[m] : m \in ModelIds} \ {0}

\* A mutant of CancelAllStatuses: every record is marked cancelled.
CancelAllUnguarded(sts) ==
    [i \in DOMAIN sts |-> [sts[i] EXCEPT !.status = "cancelled"]]

\* cancel()'s status update:
\* s.status === 'running' || s.status === 'pending' ? {...s, status: 'cancelled'} : s
CancelAllStatuses(sts) ==
    [i \in DOMAIN sts |->
        IF sts[i].status \in Transient
        THEN [sts[i] EXCEPT !.status = "cancelled"]
        ELSE sts[i]]

\* cancel() with no id: abort every registered controller, cancel every
\* pending or running record.
cancelAll ==
    /\ attempts' = Abort(attempts, Registered)
    /\ statuses' = CancelAllStatuses(statuses)
    /\ UNCHANGED <<isRunning, abortControllers, runs, delivered>>

CancelAll == cancelAll /\ UNCHANGED <<vaultVars, appVars>>

\* reset()
Reset ==
    /\ statuses' = <<>>
    /\ isRunning' = FALSE
    /\ attempts' = Abort(attempts, Registered)
    /\ abortControllers' = NoControllers
    /\ UNCHANGED <<runs, delivered, vaultVars, appVars>>

OrchInit ==
    /\ statuses = <<>>
    /\ isRunning = FALSE
    /\ abortControllers = NoControllers
    /\ attempts = <<>>
    /\ runs = <<>>
    /\ delivered = {}

OrchNext ==
    \/ \E ids \in IdLists, opts \in Options : Run(ids, opts)
    \/ \E m \in ModelIds, opts \in Options : Retry(m, opts)
    \/ \E a \in 1..MaxAttempts, outcome \in {"ok", "fail"} : Complete(a, outcome)
    \/ \E m \in ModelIds : CancelOne(m)
    \/ CancelAll
    \/ Reset

(***************************************************************************)
(* The credential vault.                                                   *)
(*                                                                         *)
(* Strings are sequences of code points. AES-GCM and PBKDF2 are the        *)
(* browser's: they are modelled as ideal primitives (a sealed box opens    *)
(* only under the key and iv that sealed it, and only if it is intact;     *)
(* distinct (passphrase, salt) pairs derive distinct keys).                *)
(***************************************************************************)

\* A storage item or a nullable value: None (null, absent) or <<value>>.
None == <<>>

Some(x) == <<x>>

Get(opt) == opt[1]

\* "p", "q" and a passphrase holding a code point outside Latin-1 (U+26B7).
Passphrases == {<<112>>, <<113>>, <<112, 9911>>}

Secrets == {"sk-1", "sk-2"}

\* ApiKeys objects: a secret string for some of the providers.
CredSets == UNION {[S -> Secrets] : S \in SUBSET Providers}

\* useState<ApiKeys>({}) and setApiKeys({})
EmptyKeys == [p \in {} |-> "sk-1"]

\* btoa throws InvalidCharacterError on a code point above 0xFF.
BtoaThrows(str) == \E i \in DOMAIN str : str[i] > 255

Btoa(str) == [b64 |-> str]

Atob(enc) == enc.b64

\* JSON.stringify / JSON.parse of an ApiKeys object.
JSONStringify(keys) == [json |-> keys]

JSONParse(text) == text.json

\* deriveKey: PBKDF2 over (passphrase, salt).
deriveKey(passphrase, salt) == [pass |-> passphrase, salt |-> salt]

\* A mutant of encrypt: the plaintext is stored under no passphrase-derived key.
EncryptPlain(plaintext, passphrase, salt, iv) ==
    Btoa([salt |-> salt, iv |-> iv,
          ct |-> [key |-> [pass |-> <<>>, salt |-> salt], iv |-> iv,
                  pt |-> plaintext, intact |-> TRUE]])

\* encrypt(plaintext, passphrase) with the random salt and iv drawn: the
\* base64 of salt || iv || ciphertext+tag.
encrypt(plaintext, passphrase, salt, iv) ==
    Btoa([salt |-> salt, iv |-> iv,
          ct |-> [key |-> deriveKey(passphrase, salt), iv |-> iv,
                  pt |-> plaintext, intact |-> TRUE]])

\* A mutant of DecryptOk: the authentication tag is not verified.
DecryptNoAuth(ciphertext, passphrase) == TRUE

\* crypto.subtle.decrypt fulfils (rather than throws) exactly when the key
\* derived from (passphrase, stored salt) and the stored iv are those the
\* ciphertext was sealed with and the ciphertext and tag are unmodified.
DecryptOk(ciphertext, passphrase) ==
    LET combined == Atob(ciphertext)
    IN /\ combined.ct.intact
       /\ combined.ct.key = deriveKey(passphrase, combined.salt)
       /\ combined.ct.iv = combined.iv

\* decrypt(ciphertext, passphrase), when it does not throw.
decrypt(ciphertext, passphrase) == Atob(ciphertext).ct.pt

NoSession == [pk |-> None, unlocked |-> None]

\* A mutant of setPassphraseUnlocked(false): the cached passphrase is kept.
LockKeepsPassphrase(sess) == [sess EXCEPT !.unlocked = None]

\* setPassphraseUnlocked(false): removes _pk_unlocked and _pk.
setPassphraseLocked(sess) == [pk |-> None, unlocked |-> None]

\* cachePassphrase(passphrase), when btoa does not throw.
cachePassphrase(passphrase) ==
    [pk |-> Some(Btoa(passphrase)), unlocked |-> Some("true")]

\* getCachedPassphrase()
getCachedPassphrase(sess) ==
    IF sess.pk # None THEN Some(Atob(Get(sess.pk))) ELSE None

\* A mutant of hasApiKeysStored: the stored blob is not found.
NoKeysStored(b) == FALSE

\* hasApiKeysStored()
hasApiKeysStored(b) == b # None

\* The history of the sequence save(C, P); lock(); unlock(P).
NoTrail == [stage |-> "none", keys |-> EmptyKeys, pass |-> <<>>]

\* unlockVault(passphrase) on the React state `st` (apiKeys, isUnlocked) and
\* the session store: what it returns and what it leaves. An exception
\* anywhere inside (decrypt, JSON.parse, btoa) is caught and turned into false;
\* what was set before it stays set.
UnlockEffect(st, passphrase) ==
    IF blob = None
    THEN IF BtoaThrows(passphrase)
         THEN [st EXCEPT !.ret = "false"]
         ELSE [st EXCEPT !.ret = "true", !.session = cachePassphrase(passphrase),
                         !.isUnlocked = TRUE]
    ELSE IF ~DecryptOk(Get(blob), passphrase)
         THEN [st EXCEPT !.ret = "false"]
    ELSE IF BtoaThrows(passphrase)
         THEN [st EXCEPT !.ret = "false",
                         !.apiKeys = JSONParse(decrypt(Get(blob), passphrase))]
    ELSE [st EXCEPT !.ret = "true",
                    !.apiKeys = JSONParse(decrypt(Get(blob), passphrase)),
                    !.session = cachePassphrase(passphrase),
                    !.isUnlocked = TRUE]

\* unlockVault(passphrase), called by the user.
Unlock(passphrase) ==
    /\ LET e == UnlockEffect([ret |-> "none", apiKeys |-> apiKeys,
                              session |-> session, isUnlocked |-> isUnlocked],
                             passphrase)
       IN /\ apiKeys' = e.apiKeys
          /\ session' = e.session
          /\ isUnlocked' = e.isUnlocked
          /\ lastCall' = [op |-> "unlock", pass |-> passphrase, ret |-> e.ret]
    /\ saveTrail' = IF saveTrail.stage = "locked" /\ saveTrail.pass = passphrase
                    THEN [saveTrail EXCEPT !.stage = "unlocked"]
                    ELSE NoTrail
    /\ UNCHANGED <<blob, hasStoredKeys, saltCounter, orchVars, appVars>>

\* lockVault()
Lock ==
    /\ apiKeys' = EmptyKeys
    /\ isUnlocked' = FALSE
    /\ session' = setPassphraseLocked(session)
    /\ lastCall' = [op |-> "lock", pass |-> <<>>, ret |-> "void"]
    /\ saveTrail' = IF saveTrail.stage = "saved"
                    THEN [saveTrail EXCEPT !.stage = "locked"]
                    ELSE NoTrail
    /\ UNCHANGED <<blob, hasStoredKeys, saltCounter, orchVars, appVars>>

\* saveApiKeys(keys, passphrase): a fresh salt and iv, the blob persisted, the
\* keys set; the rest is skipped when cachePassphrase throws.
Save(keys, passphrase) ==
    /\ saltCounter < MaxSaves
    /\ saltCounter' = saltCounter + 1
    /\ blob' = Some(encrypt(JSONStringify(keys), passphrase,
                             saltCounter + 1, saltCounter + 1))
    /\ apiKeys' = keys
    /\ IF BtoaThrows(passphrase)
       THEN /\ UNCHANGED <<session, isUnlocked, hasStoredKeys>>
            /\ lastCall' = [op |-> "save", pass |-> passphrase, ret |-> "rejected"]
       ELSE /\ session' = cachePassphrase(passphrase)
            /\ isUnlocked' = TRUE
            /\ hasStoredKeys' = TRUE
            /\ lastCall' = [op |-> "save", pass |-> passphrase, ret |-> "void"]
    /\ saveTrail' = [stage |-> "saved", keys |-> keys, pass |-> passphrase]
    /\ UNCHANGED <<orchVars, appVars>>

\* The persisted blob is altered outside the application, in one of its parts.
Tamper(part) ==
    /\ blob # None
    /\ LET c == Atob(Get(blob))
       IN blob' = Some(Btoa(CASE part = "salt" -> [c EXCEPT !.salt = 0]
                              [] part = "iv" -> [c EXCEPT !.iv = 0]
                              [] OTHER -> [c EXCEPT !.ct.intact = FALSE]))
    /\ lastCall' = [op |-> "tamper", pass |-> <<>>, ret |-> "void"]
    /\ saveTrail' = NoTrail
    /\ UNCHANGED <<session, apiKeys, isUnlocked, hasStoredKeys, saltCounter, orchVars, appVars>>

(***************************************************************************)
(* The routing rules and their editor (RoutingRulesEditor over             *)
(* AppProvider's updateRoutingRules and lib/storage).  A rule is a record  *)
(* [id, name, condition, preferredModels, enabled]; a field that is absent *)
(* or undefined holds Undefined, booleans are "true" and "false", and a    *)
(* name is its sequence of code points.                                    *)
(***************************************************************************)
MaxRules == 2

AVAILABLE_MODELS ==
    <<"openai:gpt-4o", "openai:gpt-4o-mini", "anthropic:claude-3-5-sonnet-20241022",
      "anthropic:claude-3-5-haiku-20241022", "gemini:gemini-1.5-pro",
      "gemini:gemini-1.5-flash">>

Presets == {"research", "code", "operator"}

\* JavaScript truthiness of an optional string: undefined and "" are falsy.
Truthy(v) == v # Undefined /\ v # ""

\* String.prototype.trim over code points (the space is 32).
RECURSIVE TrimStart(_)
TrimStart(str) ==
    IF str # <<>> /\ Head(str) = 32 THEN TrimStart(Tail(str)) ELSE str

RECURSIVE TrimEnd(_)
TrimEnd(str) ==
    IF str # <<>> /\ str[Len(str)] = 32
    THEN TrimEnd(SubSeq(str, 1, Len(str) - 1))
    ELSE str

Trim(str) == TrimEnd(TrimStart(str))

\* 'New Rule', the name handleAddRule gives.
NewRuleName == <<78, 101, 119, 32, 82, 117, 108, 101>>

NoCondition == [preset |-> Undefined, contentLength |-> Undefined, hasCode |-> Undefined]

\* getRoutingRules' fallback when nothing is stored.
DefaultRules ==
    << [id |-> "default-code",
        name |-> <<67, 111, 100, 101, 32, 66, 101, 110, 99, 104, 32, 45, 32, 67, 108, 97, 117, 100, 101, 32, 102, 111, 114, 32, 108, 111, 110, 103, 32, 99, 111, 100, 101>>,
        condition |-> [preset |-> "code", contentLength |-> "long", hasCode |-> Undefined],
        preferredModels |-> <<"anthropic:claude-3-5-sonnet-20241022", "openai:gpt-4o",
                              "gemini:gemini-1.5-pro">>,
        enabled |-> "true"],
       [id |-> "default-research",
        name |-> <<82, 101, 115, 101, 97, 114, 99, 104, 32, 45, 32, 71, 80, 84, 45, 52, 32, 112, 114, 105, 109, 97, 114, 121>>,
        condition |-> [preset |-> "research", contentLength |-> Undefined,
                       hasCode |-> Undefined],
        preferredModels |-> <<"openai:gpt-4o", "anthropic:claude-3-5-sonnet-20241022">>,
        enabled |-> "true"] >>

\* ROUTING_RULE_SCHEMA: the required fields with their types, lengths and enums.
ROUTING_RULE_SCHEMA(rule) ==
    /\ rule.id # Undefined
    /\ Len(rule.name) >= 1
    /\ rule.condition.preset \in {Undefined} \cup Presets
    /\ rule.condition.contentLength \in {Undefined, "short", "medium", "long"}
    /\ rule.condition.hasCode \in {Undefined, "true", "false"}
    /\ Len(rule.preferredModels) >= 1
    /\ rule.enabled \in {"true", "false"}

\* getRoutingRules(): the stored list, or the defaults when nothing is stored.
getRoutingRules(stored) ==
    IF stored = None THEN DefaultRules ELSE JSONParse(Get(stored))

\* validateRule(rule): the list of error messages.
validateRule(rule) ==
    (IF rule.name = <<>> \/ Len(Trim(rule.name)) = 0
     THEN <<"Name is required">> ELSE <<>>)
    \o (IF Len(rule.preferredModels) = 0
        THEN <<"At least one model must be selected">> ELSE <<>>)
    \o (IF SelectSeq(rule.preferredModels,
                     LAMBDA m : m \notin Range(AVAILABLE_MODELS)) # <<>>
        THEN <<"Invalid models">> ELSE <<>>)
    \o (IF Truthy(rule.condition.preset) /\ rule.condition.preset \notin Presets
        THEN <<"Invalid preset value">> ELSE <<>>)
    \o (IF Truthy(rule.condition.contentLength)
           /\ rule.condition.contentLength \notin {"short", "medium", "long"}
        THEN <<"Invalid content length value">> ELSE <<>>)

\* simulateRouting's `contentLength`: the bucket of a prompt length.
contentLength(promptLength) ==
    IF promptLength < 500 THEN "short"
    ELSE IF promptLength < 2000 THEN "medium"
    ELSE "long"

\* simulateRouting's `hasCode`: a constant ("Would need content analysis").
hasCode == "false"

\* The body of simulateRouting's loop: does the rule match the input?
RuleMatches(rule, presetIn, promptLength) ==
    /\ ~(Truthy(rule.condition.preset) /\ rule.condition.preset # presetIn)
    /\ ~(Truthy(rule.condition.contentLength)
         /\ rule.condition.contentLength # contentLength(promptLength))
    /\ ~(rule.condition.hasCode # Undefined /\ rule.condition.hasCode # hasCode)

\* A mutant of IsEnabled: disabled rules are evaluated as well.
EnabledAlways(rule) == TRUE

\* rules.filter(r => r.enabled)
IsEnabled(rule) == rule.enabled = "true"

\* simulateRouting's loop: the first rule of the list that matches.
RECURSIVE FirstMatch(_, _, _)
FirstMatch(rules, presetIn, promptLength) ==
    IF rules = <<>>
    THEN [matchedRule |-> None, selectedModels |-> <<>>]
    ELSE IF RuleMatches(Head(rules), presetIn, promptLength)
         THEN [matchedRule |-> Some(Head(rules)),
               selectedModels |-> Head(rules).preferredModels]
         ELSE FirstMatch(Tail(rules), presetIn, promptLength)

simulateRouting(rules, presetIn, promptLength) ==
    FirstMatch(SelectSeq(rules, IsEnabled), presetIn, promptLength)

\* useMemo: errors[rule.id] = validateRule(rule) for each rule in turn, so
\* the last rule with an id decides that id's entry.
ruleErrors(rules) ==
    [id \in {rules[i].id : i \in DOMAIN rules} |->
        LET last == CHOOSE i \in DOMAIN rules :
                        /\ rules[i].id = id
                        /\ \A j \in DOMAIN rules : rules[j].id = id => j <= i
        IN validateRule(rules[last])]

\* Object.values(ruleErrors).some(e => e.length > 0)
HasErrors(errors) == \E id \in DOMAIN errors : Len(errors[id]) > 0

\* generateId(): an id no rule of the list has.  Ids are numbered in the
\* order they are generated, and the MaxRules-th is the last one generated.
RuleId(i) == "rule-" \o ToString(i)

NextRuleIndex(rules) ==
    CHOOSE i \in 1..(MaxRules + 1) :
        /\ \A j \in i..MaxRules : \A k \in DOMAIN rules : rules[k].id # RuleId(j)
        /\ i > 1 => \E k \in DOMAIN rules : rules[k].id = RuleId(i - 1)

generateId(rules) == RuleId(NextRuleIndex(rules))

\* { ...r, ...updates }
Merge(r, updates) ==
    [f \in DOMAIN r |-> IF f \in DOMAIN updates THEN updates[f] ELSE r[f]]

\* handleUpdateRule's map over the list.
UpdateRules(rules, id, updates) ==
    [i \in DOMAIN rules |-> IF rules[i].id = id THEN Merge(rules[i], updates) ELSE rules[i]]

\* The texts typed into the JSON view: an array of rules, another JSON value,
\* or text that is no JSON.
JsonRules ==
    LET good(i) == [id |-> RuleId(i), name |-> NewRuleName, condition |-> NoCondition,
                    preferredModels |-> <<AVAILABLE_MODELS[1]>>, enabled |-> "true"]
    IN {good(1),
        [good(1) EXCEPT !.name = <<>>],
        [good(2) EXCEPT !.enabled = Undefined]}

JsonTexts ==
    {[kind |-> "array", json |-> list] :
        list \in {<<>>} \cup [1..1 -> JsonRules] \cup [1..2 -> JsonRules]}
    \cup {[kind |-> "object", json |-> <<>>], [kind |-> "malformed", json |-> <<>>]}

\* The names typed into a rule's name field, and the lengths typed into the
\* simulation's length field.
TypedNames == {NewRuleName, <<32>>}

TypedLengths == {2000}

\* The useMemo of simulationResult, recomputed on every render.
Rendered(rules, presetIn, promptLength) ==
    Some(simulateRouting(rules, presetIn, promptLength))

\* The "Routing Rules" button: setRoutingRulesOpen(true).
OpenEditor ==
    /\ ~routingRulesOpen
    /\ routingRulesOpen' = TRUE
    /\ UNCHANGED <<localRules, routingRules, storedRules, simulatePromptLength, preset,
                   promptHasCode, simulationResult, jsonError>>
    /\ UNCHANGED <<orchVars, vaultVars, testVars, storeVars, promptVars, vaultCalls>>

\* The Cancel button: onOpenChange(false); the edited list stays in the editor.
CancelEditor ==
    /\ routingRulesOpen
    /\ routingRulesOpen' = FALSE
    /\ UNCHANGED <<localRules, routingRules, storedRules, simulatePromptLength, preset,
                   promptHasCode, simulationResult, jsonError>>
    /\ UNCHANGED <<orchVars, vaultVars, testVars, storeVars, promptVars, vaultCalls>>

\* What every edit of the list leaves alone.
EditFrame ==
    /\ simulationResult' = Rendered(localRules', preset, simulatePromptLength)
    /\ UNCHANGED <<routingRules, storedRules, routingRulesOpen, simulatePromptLength,
                   preset, promptHasCode>>
    /\ UNCHANGED <<orchVars, vaultVars, testVars, storeVars, promptVars, vaultCalls>>

handleAddRule ==
    /\ routingRulesOpen
    /\ NextRuleIndex(localRules) <= MaxRules
    /\ localRules' = Append(localRules,
                            [id |-> generateId(localRules),
                             name |-> NewRuleName,
                             condition |-> NoCondition,
                             preferredModels |-> <<AVAILABLE_MODELS[1]>>,
                             enabled |-> "true"])
    /\ UNCHANGED jsonError
    /\ EditFrame

handleDeleteRule(id) ==
    /\ routingRulesOpen
    /\ localRules' = SelectSeq(localRules, LAMBDA r : r.id # id)
    /\ UNCHANGED jsonError
    /\ EditFrame

handleUpdateRule(id, updates) ==
    /\ routingRulesOpen
    /\ localRules' = UpdateRules(localRules, id, updates)
    /\ UNCHANGED jsonError
    /\ EditFrame

\* The controls of the i-th rule's card that bear on the rule's validity:
\* the name field and the badge of the first available model.
EditRule(i) ==
    LET rule == localRules[i]
        model == AVAILABLE_MODELS[1]
    IN \/ \E v \in TypedNames : handleUpdateRule(rule.id, [name |-> v])
       \/ handleUpdateRule(rule.id,
              [preferredModels |->
                  IF model \in Range(rule.preferredModels)
                  THEN SelectSeq(rule.preferredModels, LAMBDA m : m # model)
                  ELSE Append(rule.preferredModels, model)])

handleJsonChange(text) ==
    /\ routingRulesOpen
    /\ IF text.kind = "malformed"
       THEN /\ jsonError' = Some("Invalid JSON")
            /\ UNCHANGED localRules
       ELSE IF text.kind # "array"
       THEN /\ jsonError' = Some("Must be an array of rules")
            /\ UNCHANGED localRules
       ELSE /\ localRules' = JSONParse(text)
            /\ jsonError' = None
    /\ EditFrame

\* setSimulatePromptLength(Number(e.target.value))
SetSimulatePromptLength(n) ==
    /\ routingRulesOpen
    /\ simulatePromptLength' = n
    /\ simulationResult' = Rendered(localRules, preset, n)
    /\ UNCHANGED <<localRules, routingRules, storedRules, routingRulesOpen, preset,
                   promptHasCode, jsonError>>
    /\ UNCHANGED <<orchVars, vaultVars, testVars, storeVars, promptVars, vaultCalls>>

\* handleSave: nothing when an error is recorded; otherwise
\* updateRoutingRules(localRules), which persists the list and makes it the
\* active one, and the dialog closes.
handleSave ==
    /\ routingRulesOpen
    /\ IF HasErrors(ruleErrors(localRules))
       THEN UNCHANGED <<storedRules, routingRules, routingRulesOpen>>
       ELSE /\ storedRules' = Some(JSONStringify(localRules))
            /\ routingRules' = localRules
            /\ routingRulesOpen' = FALSE
    /\ UNCHANGED <<localRules, simulatePromptLength, preset, promptHasCode,
                   simulationResult, jsonError>>
    /\ UNCHANGED <<orchVars, vaultVars, testVars, storeVars, promptVars, vaultCalls>>

RuleInit ==
    /\ localRules = <<>>
    /\ routingRules = DefaultRules
    /\ storedRules = None
    /\ routingRulesOpen = FALSE
    /\ simulatePromptLength = 1000
    /\ preset = "research"
    /\ promptHasCode = FALSE
    /\ simulationResult = Rendered(<<>>, "research", 1000)
    /\ jsonError = None

EditorNext ==
    \/ OpenEditor
    \/ CancelEditor
    \/ handleAddRule
    \/ \E i \in DOMAIN localRules : handleDeleteRule(localRules[i].id)
    \/ \E i \in DOMAIN localRules : EditRule(i)
    \/ \E text \in JsonTexts : handleJsonChange(text)
    \/ \E n \in TypedLengths : SetSimulatePromptLength(n)
    \/ handleSave

(***************************************************************************)
(* simulateRouting as a function of its inputs: the rule lists, presets    *)
(* and prompt lengths it is evaluated on.                                  *)
(***************************************************************************)
Conditions ==
    [preset : {Undefined} \cup Presets,
     contentLength : {Undefined, "short", "medium", "long"},
     hasCode : {Undefined, "true", "false"}]

FewConditions ==
    {c \in Conditions :
        /\ c.preset \in {Undefined, "code"}
        /\ c.contentLength \in {Undefined, "long"}
        /\ c.hasCode = Undefined}

\* The i-th rule of an evaluated list.
RuleAt(i, cond, en) ==
    [id |-> RuleId(i), name |-> NewRuleName, condition |-> cond,
     preferredModels |-> <<AVAILABLE_MODELS[i]>>, enabled |-> en]

\* Every single enabled rule, and every list of up to MaxRules rules over the
\* few conditions, enabled or not.
RuleLists ==
    {<<RuleAt(1, c, "true")>> : c \in Conditions}
    \cup UNION {{[i \in 1..n |-> RuleAt(i, f[i][1], f[i][2])] :
                    f \in [1..n -> FewConditions \X {"true", "false"}]} :
                n \in 0..MaxRules}

PromptLengths == {0, 499, 500, 1999, 2000, 2001}

\* One evaluation: the editor renders the simulation of its list.
Evaluate ==
    /\ simulationResult = None
    /\ simulationResult' = Rendered(localRules, preset, simulatePromptLength)
    /\ UNCHANGED <<localRules, routingRules, storedRules, routingRulesOpen,
                   simulatePromptLength, preset, promptHasCode, jsonError>>
    /\ UNCHANGED <<orchVars, vaultVars, testVars, storeVars, promptVars, vaultCalls>>

(***************************************************************************)
(* The adapters' testConnection and the Settings dialog's Test button.     *)
(***************************************************************************)
TestProviders == {"openai", "anthropic", "gemini"}

\* The keys typed into the dialog: "sk-ant-1", "sk-1" and a key holding a
\* code point outside Latin-1, which no header value may hold.
TypedKeys == {<<115, 107, 45, 97, 110, 116, 45, 49>>, <<115, 107, 45, 49>>, <<115, 107, 45, 9911>>}

\* apiKey.startsWith('sk-ant-')
StartsWithSkAnt(apiKey) ==
    LET prefix == <<115, 107, 45, 97, 110, 116, 45>>
    IN Len(apiKey) >= Len(prefix) /\ SubSeq(apiKey, 1, Len(prefix)) = prefix

\* What the provider does to the request: answers 2xx, answers otherwise, or
\* the request fails.  Anthropic's adapter sends none.
FetchOutcomes(providerId) ==
    IF providerId = "anthropic" THEN {"nofetch"} ELSE {"ok", "notok", "fails"}

\* The body of testConnection's try block: "true", "false", or "throw".
TryTestConnection(providerId, apiKey, outcome) ==
    CASE providerId = "anthropic" ->
            IF StartsWithSkAnt(apiKey) THEN "true" ELSE "false"
      [] providerId = "openai" ->
            IF BtoaThrows(apiKey) \/ outcome = "fails" THEN "throw"
            ELSE IF outcome = "ok" THEN "true" ELSE "false"
      [] OTHER ->
            IF outcome = "fails" THEN "throw"
            ELSE IF outcome = "ok" THEN "true" ELSE "false"

\* A mutant of CatchFalse: the adapter lets the failure through.
CatchNothing(result) == IF result = "throw" THEN "rejected" ELSE result

\* catch { return false; }
CatchFalse(result) == IF result = "throw" THEN "false" ELSE result

testConnection(providerId, apiKey, outcome) ==
    CatchFalse(TryTestConnection(providerId, apiKey, outcome))

NoProbe == [stage |-> "idle", key |-> <<>>, outcome |-> "none", returned |-> "none"]

\* handleTestConnection(providerId), up to its await; the button is disabled
\* while the vault is locked or a test of the provider is under way.
handleTestConnection(providerId, key) ==
    /\ isUnlocked
    /\ ~testing[providerId]
    /\ IF key = <<>>
       THEN UNCHANGED testVars
       ELSE /\ testing' = [testing EXCEPT ![providerId] = TRUE]
            /\ testResults' = [testResults EXCEPT ![providerId] = "null"]
            /\ probes' = [probes EXCEPT ![providerId] =
                            [stage |-> "awaiting", key |-> key, outcome |-> "none",
                             returned |-> "none"]]
    /\ UNCHANGED <<orchVars, vaultVars, ruleVars, storeVars, promptVars, vaultCalls>>

\* testConnection settles and handleTestConnection resumes; a rejection would
\* end the handler at its await.
TestSettles(providerId, outcome) ==
    /\ probes[providerId].stage = "awaiting"
    /\ LET success == testConnection(providerId, probes[providerId].key, outcome)
       IN /\ probes' = [probes EXCEPT ![providerId] =
                           [@ EXCEPT !.stage = "settled", !.outcome = outcome,
                                     !.returned = success]]
          /\ IF success = "rejected"
             THEN UNCHANGED <<testing, testResults>>
             ELSE /\ testResults' = [testResults EXCEPT ![providerId] = success]
                  /\ testing' = [testing EXCEPT ![providerId] = FALSE]
    /\ UNCHANGED <<orchVars, vaultVars, ruleVars, storeVars, promptVars, vaultCalls>>

TestInit ==
    /\ testing = [p \in TestProviders |-> FALSE]
    /\ testResults = [p \in TestProviders |-> Undefined]
    /\ probes = [p \in TestProviders |-> NoProbe]

(***************************************************************************)
(* lib/storage: the persisted workspaces, threads and messages.            *)
(***************************************************************************)
WorkspaceIds == {"w1", "w2"}

ThreadIds == {"t1", "t2"}

MessageIds == {"m1", "m2"}

\* saveWorkspace / saveThread: replace the entry with the same id, or push.
Upsert(list, entry) ==
    IF \E i \in DOMAIN list : list[i].id = entry.id
    THEN [i \in DOMAIN list |-> IF list[i].id = entry.id THEN entry ELSE list[i]]
    ELSE Append(list, entry)

\* saveWorkspace(workspace)
saveWorkspace(workspace) ==
    /\ workspaces' = Upsert(workspaces, workspace)
    /\ UNCHANGED <<threads, messages>>
    /\ UNCHANGED <<orchVars, vaultVars, ruleVars, testVars, promptVars, vaultCalls>>

\* deleteWorkspace(id): the workspace and its threads are filtered out.
deleteWorkspace(id) ==
    /\ workspaces' = SelectSeq(workspaces, LAMBDA w : w.id # id)
    /\ threads' = SelectSeq(threads, LAMBDA t : t.workspaceId # id)
    /\ UNCHANGED messages
    /\ UNCHANGED <<orchVars, vaultVars, ruleVars, testVars, promptVars, vaultCalls>>

\* saveThread(thread), for a thread of a stored workspace (createThread
\* takes the workspace from the current one).
saveThread(thread) ==
    /\ \E i \in DOMAIN workspaces : workspaces[i].id = thread.workspaceId
    /\ \A i \in DOMAIN threads :
          threads[i].id = thread.id => threads[i].workspaceId = thread.workspaceId
    /\ threads' = Upsert(threads, thread)
    /\ UNCHANGED <<workspaces, messages>>
    /\ UNCHANGED <<orchVars, vaultVars, ruleVars, testVars, promptVars, vaultCalls>>

\* deleteThread(id): the thread and its messages are filtered out.
deleteThread(id) ==
    /\ threads' = SelectSeq(threads, LAMBDA t : t.id # id)
    /\ messages' = SelectSeq(messages, LAMBDA m : m.threadId # id)
    /\ UNCHANGED workspaces
    /\ UNCHANGED <<orchVars, vaultVars, ruleVars, testVars, promptVars, vaultCalls>>

\* saveMessage(message), for a fresh message of a stored thread.
saveMessage(message) ==
    /\ \E i \in DOMAIN threads : threads[i].id = message.threadId
    /\ \A i \in DOMAIN messages : messages[i].id # message.id
    /\ messages' = Append(messages, message)
    /\ UNCHANGED <<workspaces, threads>>
    /\ UNCHANGED <<orchVars, vaultVars, ruleVars, testVars, promptVars, vaultCalls>>

StoreInit ==
    /\ workspaces = <<>>
    /\ threads = <<>>
    /\ messages = <<>>

StoreNext ==
    \/ \E id \in WorkspaceIds : saveWorkspace([id |-> id, preset |-> "research"])
    \/ \E id \in WorkspaceIds : deleteWorkspace(id)
    \/ \E id \in ThreadIds, w \in WorkspaceIds : saveThread([id |-> id, workspaceId |-> w])
    \/ \E id \in ThreadIds : deleteThread(id)
    \/ \E id \in MessageIds, t \in ThreadIds : saveMessage([id |-> id, threadId |-> t])

(***************************************************************************)
(* The prompt editor (PromptEditor over useMultiModelRun, AppProvider's    *)
(* addMessage and the settings).  A prompt is its sequence of code points; *)
(* a message is [id, threadId, role, response], where `response` is the    *)
(* attempt whose response an assistant message holds (0 in a user's).      *)
(***************************************************************************)

\* The call run number r made resolves in the step.
RunJustResolved(r) == runs[r].state = "pending" /\ runs'[r].state = "resolved"

\* The prompts typed: "p" and a single space.
TypedPrompts == {<<112>>, <<32>>}

\* getSettings()'s fallback.
DefaultSettings == [demoMode |-> FALSE]

getSettings(stored) == IF stored = None THEN DefaultSettings ELSE Get(stored)

\* PRESET_DEFAULTS[preset].models.slice(0, 2)
DefaultModels(presetIn) ==
    IF presetIn = "code"
    THEN <<"anthropic:claude", "openai:gpt-4o">>
    ELSE <<"openai:gpt-4o", "anthropic:claude">>

\* const canRun = isDemoMode || isUnlocked
canRun == settings.demoMode \/ isUnlocked

\* The options the hook is rendered with: demoMode and the providers whose
\* credential is in memory.
HookOptions ==
    [demoMode |-> settings.demoMode,
     apiKeys |-> IF settings.demoMode THEN {} ELSE DOMAIN apiKeys]

\* The Run button's `disabled`.
RunDisabled ==
    \/ Trim(prompt) = <<>>
    \/ isRunning
    \/ selectedModels = <<>>
    \/ ~canRun

\* addMessage's generateId(): an id no stored message has.
MessageId(msgs) ==
    "m" \o ToString(CHOOSE i \in 1..(Len(msgs) + 1) :
                        /\ \A k \in DOMAIN msgs : msgs[k].id # "m" \o ToString(i)
                        /\ \A j \in 1..(i - 1) :
                              \E k \in DOMAIN msgs : msgs[k].id = "m" \o ToString(j))

\* addMessage(data) on the stored messages: saveMessage of the new message.
addMessage(msgs, thread, role, response) ==
    Append(msgs, [id |-> MessageId(msgs), threadId |-> thread.id, role |-> role,
                  response |-> response])

\* The hook's onResponse: one assistant message, when a thread is current.
onResponse(msgs, a) ==
    IF currentThread # None
    THEN addMessage(msgs, Get(currentThread), "assistant", a)
    ELSE msgs

\* The continuation of handleRetry after `await retry(...)` returned a
\* response: another addMessage of the same response.
AfterRetry(msgs, a) ==
    IF currentThread # None
    THEN addMessage(msgs, Get(currentThread), "assistant", a)
    ELSE msgs

\* addMessage's saveThread({ ...currentThread, ...updates }).
TouchThread ==
    threads' = IF currentThread # None /\ messages' # messages
               THEN Upsert(threads, Get(currentThread))
               ELSE threads

\* The textarea's onChange (the textarea is disabled without a thread).
SetPrompt(text) ==
    /\ currentThread # None
    /\ prompt' = text
    /\ UNCHANGED <<selectedModels, currentThread, settings, storedSettings>>
    /\ UNCHANGED <<orchVars, vaultVars, ruleVars, testVars, storeVars, vaultCalls>>

\* A model badge's onClick: hasKey && toggleModel(model.id).
toggleModel(modelId) ==
    /\ HasCredential(HookOptions, modelId)
    /\ selectedModels' =
          IF modelId \in Range(selectedModels)
          THEN SelectSeq(selectedModels, LAMBDA m : m # modelId)
          ELSE IF Len(selectedModels) >= 3 THEN selectedModels
          ELSE Append(selectedModels, modelId)
    /\ UNCHANGED <<prompt, currentThread, settings, storedSettings>>
    /\ UNCHANGED <<orchVars, vaultVars, ruleVars, testVars, storeVars, vaultCalls>>

\* handleRun: nothing without a prompt, a thread or a model; otherwise the
\* user's message is added and run() is called; when run() resolves (here:
\* at once, when no task reached a provider) the prompt is cleared.
handleRun ==
    IF Trim(prompt) = <<>> \/ currentThread = None \/ selectedModels = <<>>
    THEN UNCHANGED vars
    ELSE /\ run(selectedModels, HookOptions)
         /\ messages' = addMessage(messages, Get(currentThread), "user", 0)
         /\ TouchThread
         /\ prompt' = IF runs'[Len(runs')].state = "resolved" THEN <<>> ELSE prompt
         /\ UNCHANGED <<selectedModels, currentThread, settings, storedSettings>>
         /\ UNCHANGED <<workspaces, vaultVars, ruleVars, testVars, vaultCalls>>

\* The Run button, which is disabled under RunDisabled.
ClickRun == ~RunDisabled /\ handleRun

\* handleKeyDown on Cmd/Ctrl+Enter in the textarea: handleRun().
handleKeyDown == currentThread # None /\ handleRun

\* A record's retry button (shown on an error that can be retried):
\* handleRetry(modelId) up to its await.  lastPrompt is set by every
\* handleRun that calls run(), so it is not empty once a record exists.
handleRetry(modelId) ==
    /\ \E i \in DOMAIN statuses :
          /\ statuses[i].modelId = modelId
          /\ statuses[i].status = "error"
          /\ statuses[i].canRetry = "true"
    /\ retry(modelId, HookOptions)
    /\ UNCHANGED <<vaultVars, appVars>>

\* A provider call settles in the editor: runSingleModel's continuation with
\* the editor's onResponse, then the continuation of what awaited it:
\* handleRetry's second addMessage, or, when run() resolves, handleRun's
\* setPrompt('').
PromptReturns(a, outcome) ==
    /\ ProviderReturns(a, outcome)
    /\ LET got == a \in delivered' /\ a \notin delivered
           first == IF got THEN onResponse(messages, a) ELSE messages
       IN messages' = IF got /\ attempts[a].run = 0 THEN AfterRetry(first, a) ELSE first
    /\ TouchThread
    /\ prompt' = IF \E r \in DOMAIN runs : RunJustResolved(r) THEN <<>> ELSE prompt
    /\ UNCHANGED <<selectedModels, currentThread, settings, storedSettings>>
    /\ UNCHANGED <<workspaces, vaultVars, ruleVars, testVars, vaultCalls>>

\* A running record's cancel button.
ClickCancel(modelId) ==
    /\ StatusOf(statuses, modelId) = "running"
    /\ CancelOne(modelId)

\* "Cancel All", rendered while isRunning and a record exists.
ClickCancelAll ==
    /\ isRunning
    /\ statuses # <<>>
    /\ CancelAll

\* updateSettings({ demoMode: checked }) from the Settings dialog.
updateSettings(demo) ==
    /\ settings' = [settings EXCEPT !.demoMode = demo]
    /\ storedSettings' = Some(settings')
    /\ UNCHANGED <<prompt, selectedModels, currentThread>>
    /\ UNCHANGED <<orchVars, vaultVars, ruleVars, testVars, storeVars, vaultCalls>>

PromptInit ==
    /\ prompt = <<>>
    /\ selectedModels = <<>>
    /\ currentThread = None
    /\ settings = DefaultSettings
    /\ storedSettings = None

PromptNext ==
    \/ \E text \in TypedPrompts : SetPrompt(text)
    \/ \E m \in ModelIds : toggleModel(m)
    \/ ClickRun
    \/ handleKeyDown
    \/ \E m \in ModelIds : handleRetry(m)
    \/ \E a \in 1..MaxAttempts, outcome \in {"ok", "fail"} : PromptReturns(a, outcome)
    \/ \E m \in ModelIds : ClickCancel(m)
    \/ ClickCancelAll
    \/ \E demo \in BOOLEAN : updateSettings(demo)
    \/ Lock

(***************************************************************************)
(* The vault's calls at the granularity of their awaits.  unlockVault and  *)
(* saveApiKeys are async: between the call and the continuation after      *)
(* decrypt or encrypt (key derivation, AES-GCM) other handlers run.  A call *)
(* that reached its await is a record of what it holds: the passphrase,     *)
(* the blob unlockVault read, the keys and the salt saveApiKeys drew.       *)
(***************************************************************************)
MaxCalls == 3

\* "p" and "q": passphrases btoa accepts.
LatinPassphrases == {p \in Passphrases : ~BtoaThrows(p)}

\* The credential sets saved by the interleaved calls.
SavedSets == {[p \in Providers |-> "sk-1"], [p \in {"openai"} |-> "sk-2"]}

InFlightCalls == {c \in DOMAIN vaultCalls : vaultCalls[c].state = "inflight"}

\* A page that is unloaded never resumes its calls.
Unloaded(calls) ==
    [c \in DOMAIN calls |->
        IF calls[c].state = "inflight" THEN [calls[c] EXCEPT !.state = "dropped"]
        ELSE calls[c]]

\* unlockVault(passphrase) up to its first await.  Without a stored blob it
\* has none and finishes at once; otherwise it holds the blob it read and
\* awaits decrypt.
unlockVaultBegins(passphrase) ==
    /\ Len(vaultCalls) < MaxCalls
    /\ IF blob = None
       THEN /\ LET e == UnlockEffect([ret |-> "none", apiKeys |-> apiKeys,
                                      session |-> session, isUnlocked |-> isUnlocked],
                                     passphrase)
               IN /\ session' = e.session
                  /\ isUnlocked' = e.isUnlocked
                  /\ lastCall' = [op |-> "unlock", pass |-> passphrase, ret |-> e.ret]
            /\ UNCHANGED vaultCalls
       ELSE /\ vaultCalls' = Append(vaultCalls,
                                [op |-> "unlock", pass |-> passphrase,
                                 encrypted |-> Get(blob), keys |-> EmptyKeys,
                                 salt |-> 0, state |-> "inflight"])
            /\ lastCall' = [op |-> "unlockBegins", pass |-> passphrase, ret |-> "none"]
            /\ UNCHANGED <<session, isUnlocked>>
    /\ saveTrail' = NoTrail
    /\ UNCHANGED <<blob, apiKeys, hasStoredKeys, saltCounter>>
    /\ UNCHANGED <<orchVars, ruleVars, testVars, storeVars, promptVars>>

\* unlockVault after `await decrypt(encrypted, passphrase)`: the catch when
\* decrypt threw; otherwise setApiKeys, cachePassphrase, setIsUnlocked.
unlockVaultEnds(c) ==
    /\ c \in InFlightCalls
    /\ vaultCalls[c].op = "unlock"
    /\ LET call == vaultCalls[c]
           ok == DecryptOk(call.encrypted, call.pass)
           cached == ok /\ ~BtoaThrows(call.pass)
       IN /\ apiKeys' = IF ok THEN JSONParse(decrypt(call.encrypted, call.pass))
                        ELSE apiKeys
          /\ session' = IF cached THEN cachePassphrase(call.pass) ELSE session
          /\ isUnlocked' = IF cached THEN TRUE ELSE isUnlocked
          /\ lastCall' = [op |-> "unlock", pass |-> call.pass,
                          ret |-> IF cached THEN "true" ELSE "false"]
    /\ vaultCalls' = [vaultCalls EXCEPT ![c].state = "done"]
    /\ saveTrail' = NoTrail
    /\ UNCHANGED <<blob, hasStoredKeys, saltCounter>>
    /\ UNCHANGED <<orchVars, ruleVars, testVars, storeVars, promptVars>>

\* saveApiKeys(keys, passphrase) up to its await: encrypt draws the salt and
\* the iv and awaits the key derivation.
saveApiKeysBegins(keys, passphrase) ==
    /\ Len(vaultCalls) < MaxCalls
    /\ saltCounter < MaxSaves
    /\ saltCounter' = saltCounter + 1
    /\ vaultCalls' = Append(vaultCalls,
                        [op |-> "save", pass |-> passphrase,
                         encrypted |-> Btoa(<<>>), keys |-> keys,
                         salt |-> saltCounter + 1, state |-> "inflight"])
    /\ lastCall' = [op |-> "saveBegins", pass |-> passphrase, ret |-> "none"]
    /\ saveTrail' = NoTrail
    /\ UNCHANGED <<blob, session, apiKeys, isUnlocked, hasStoredKeys>>
    /\ UNCHANGED <<orchVars, ruleVars, testVars, storeVars, promptVars>>

\* saveApiKeys after `await encrypt(...)`: the blob is persisted, the keys
\* set; the rest is skipped when cachePassphrase throws.
saveApiKeysEnds(c) ==
    /\ c \in InFlightCalls
    /\ vaultCalls[c].op = "save"
    /\ LET call == vaultCalls[c]
           cached == ~BtoaThrows(call.pass)
       IN /\ blob' = Some(encrypt(JSONStringify(call.keys), call.pass,
                                   call.salt, call.salt))
          /\ apiKeys' = call.keys
          /\ session' = IF cached THEN cachePassphrase(call.pass) ELSE session
          /\ isUnlocked' = IF cached THEN TRUE ELSE isUnlocked
          /\ hasStoredKeys' = IF cached THEN TRUE ELSE hasStoredKeys
          /\ lastCall' = [op |-> "save", pass |-> call.pass,
                          ret |-> IF cached THEN "void" ELSE "rejected"]
    /\ vaultCalls' = [vaultCalls EXCEPT ![c].state = "done"]
    /\ saveTrail' = NoTrail
    /\ UNCHANGED saltCounter
    /\ UNCHANGED <<orchVars, ruleVars, testVars, storeVars, promptVars>>

(***************************************************************************)
(* Handlers that reach across the application.                             *)
(***************************************************************************)

\* clearData(), called from the command palette's "Clear All Local Data":
\* clearAllData() removes every storage key and clears the session store,
\* and the provider's React state is reset.
ClearData ==
    /\ blob' = None
    /\ session' = NoSession
    /\ apiKeys' = EmptyKeys
    /\ isUnlocked' = FALSE
    /\ hasStoredKeys' = FALSE
    /\ lastCall' = [op |-> "clear", pass |-> <<>>, ret |-> "void"]
    /\ saveTrail' = NoTrail
    /\ workspaces' = <<>>
    /\ threads' = <<>>
    /\ messages' = <<>>
    /\ storedRules' = None
    /\ routingRules' = <<>>
    /\ UNCHANGED <<localRules, routingRulesOpen, simulatePromptLength, preset,
                   promptHasCode, simulationResult, jsonError>>
    /\ currentThread' = None
    /\ storedSettings' = None
    /\ UNCHANGED <<prompt, selectedModels, settings>>
    /\ UNCHANGED <<saltCounter, orchVars, testVars, vaultCalls>>

\* What a page load does outside the vault.
PageLoadApp(op) ==
    /\ lastCall' = [op |-> op, pass |-> <<>>, ret |-> "void"]
    /\ saveTrail' = NoTrail
    /\ routingRules' = getRoutingRules(storedRules)
    /\ localRules' = <<>>
    /\ routingRulesOpen' = FALSE
    /\ simulatePromptLength' = 1000
    /\ preset' = IF workspaces = <<>> THEN "research" ELSE workspaces[1].preset
    /\ simulationResult' = Rendered(<<>>, preset', 1000)
    /\ jsonError' = None
    /\ testing' = [p \in TestProviders |-> FALSE]
    /\ testResults' = [p \in TestProviders |-> Undefined]
    /\ probes' = [p \in TestProviders |-> NoProbe]
    /\ settings' = getSettings(storedSettings)
    /\ prompt' = <<>>
    /\ IF workspaces = <<>>
       THEN selectedModels' = <<>> /\ currentThread' = None
       ELSE /\ selectedModels' = DefaultModels(workspaces[1].preset)
            /\ LET mine == SelectSeq(threads,
                                LAMBDA t : t.workspaceId = workspaces[1].id)
               IN IF mine = <<>> THEN currentThread' = None
                  ELSE \E t \in Range(mine) : currentThread' = Some(t)
    /\ UNCHANGED <<blob, saltCounter, storedRules, promptHasCode, storedSettings,
                   orchVars, storeVars>>

\* The page is loaded anew within the session: every component's state
\* starts afresh and the init effect reads the rules and the workspaces and
\* calls unlockVault with the cached passphrase when there is one and a blob
\* is stored.
PageLoad(op) ==
    /\ hasStoredKeys' = hasApiKeysStored(blob)
    /\ LET cached == getCachedPassphrase(session)
           fresh == [ret |-> "none", apiKeys |-> EmptyKeys, session |-> session,
                     isUnlocked |-> FALSE]
           e == IF cached # None /\ Get(cached) # <<>> /\ hasApiKeysStored(blob)
                THEN UnlockEffect(fresh, Get(cached))
                ELSE fresh
       IN /\ apiKeys' = e.apiKeys
          /\ session' = e.session
          /\ isUnlocked' = e.isUnlocked
    /\ vaultCalls' = Unloaded(vaultCalls)
    /\ PageLoadApp(op)

\* The page is loaded anew, up to the await of the init effect's
\* unlockVault(cached): the calls of the unloaded page are gone, the vault's
\* state starts afresh and the automatic unlock awaits decrypt.
PageLoadBegins ==
    /\ Len(vaultCalls) < MaxCalls
    /\ hasStoredKeys' = hasApiKeysStored(blob)
    /\ apiKeys' = EmptyKeys
    /\ isUnlocked' = FALSE
    /\ LET cached == getCachedPassphrase(session)
       IN vaultCalls' =
             IF cached # None /\ Get(cached) # <<>> /\ hasApiKeysStored(blob)
             THEN Append(Unloaded(vaultCalls),
                      [op |-> "unlock", pass |-> Get(cached), encrypted |-> Get(blob),
                       keys |-> EmptyKeys, salt |-> 0, state |-> "inflight"])
             ELSE Unloaded(vaultCalls)
    /\ UNCHANGED session
    /\ PageLoadApp("reload")

\* A reload of the page by the user.
Reload == PageLoad("reload")

\* The Settings dialog's "Clear All Local Data" button, confirmed:
\* window.location.reload() and nothing else.
SettingsClearAll == PageLoad("settingsClear")

VaultInit ==
    /\ blob = None
    /\ session = NoSession
    /\ apiKeys = EmptyKeys
    /\ isUnlocked = FALSE
    /\ hasStoredKeys = FALSE
    /\ saltCounter = 0
    /\ lastCall = [op |-> "init", pass |-> <<>>, ret |-> "void"]
    /\ saveTrail = NoTrail

\* The vault with its calls interleaved: unlock, save, lock and the page
\* load, over passphrases btoa accepts.
VaultCallsNext ==
    \/ \E p \in LatinPassphrases : unlockVaultBegins(p)
    \/ \E c \in 1..MaxCalls : unlockVaultEnds(c)
    \/ \E keys \in SavedSets, p \in LatinPassphrases : saveApiKeysBegins(keys, p)
    \/ \E c \in 1..MaxCalls : saveApiKeysEnds(c)
    \/ Lock
    \/ PageLoadBegins

VaultNext ==
    \/ \E p \in Passphrases : Unlock(p)
    \/ Lock
    \/ \E keys \in CredSets, p \in Passphrases : Save(keys, p)
    \/ ClearData
    \/ Reload
    \/ SettingsClearAll
    \/ \E part \in {"salt", "iv", "ct"} : Tamper(part)

TestNext ==
    \/ \E p \in Passphrases : Unlock(p)
    \/ \E p \in TestProviders, key \in TypedKeys \cup {<<>>} : handleTestConnection(p, key)
    \/ \E p \in TestProviders : \E outcome \in FetchOutcomes(p) : TestSettles(p, outcome)

Init ==
    /\ OrchInit /\ VaultInit /\ RuleInit /\ TestInit /\ StoreInit /\ PromptInit
    /\ vaultCalls = <<>>

\* The inputs of one evaluation of simulateRouting.
SimInit ==
    /\ OrchInit /\ VaultInit /\ TestInit /\ StoreInit /\ PromptInit
    /\ vaultCalls = <<>>
    /\ localRules \in RuleLists
    /\ preset \in Presets
    /\ simulatePromptLength \in PromptLengths
    /\ promptHasCode \in BOOLEAN
    /\ simulationResult = None
    /\ routingRules = DefaultRules
    /\ storedRules = None
    /\ routingRulesOpen = TRUE
    /\ jsonError = None

\* The orchestrator on its own (the vault at rest).
OrchSpec == Init /\ [][OrchNext]_vars

\* The vault on its own (the orchestrator at rest).
VaultSpec == Init /\ [][VaultNext]_vars

\* The rule editor on its own.
EditorSpec == Init /\ [][EditorNext]_vars

\* simulateRouting on its own, over its inputs.
SimSpec == SimInit /\ [][Evaluate]_vars

\* The Settings dialog's connection tests, once the vault is unlocked.
TestSpec == Init /\ [][TestNext]_vars

\* lib/storage on its own.
StoreSpec == Init /\ [][StoreNext]_vars

\* The vault with its asynchronous calls interleaved.
VaultCallsSpec == Init /\ [][VaultCallsNext]_vars

\* The saved credentials of the prompt editor's initial state.
SavedKeys == [p \in Providers |-> "sk-1"]

\* The prompt editor once a workspace and a thread were created and the
\* credentials of both providers were saved under the passphrase "p".
PromptReady ==
    /\ OrchInit /\ RuleInit /\ TestInit
    /\ workspaces = <<[id |-> "w1", preset |-> "research"]>>
    /\ threads = <<[id |-> "t1", workspaceId |-> "w1"]>>
    /\ messages = <<>>
    /\ blob = Some(encrypt(JSONStringify(SavedKeys), <<112>>, 1, 1))
    /\ session = cachePassphrase(<<112>>)
    /\ apiKeys = SavedKeys
    /\ isUnlocked = TRUE
    /\ hasStoredKeys = TRUE
    /\ saltCounter = 1
    /\ lastCall = [op |-> "save", pass |-> <<112>>, ret |-> "void"]
    /\ saveTrail = [stage |-> "saved", keys |-> SavedKeys, pass |-> <<112>>]
    /\ prompt = <<>>
    /\ selectedModels = DefaultModels("research")
    /\ currentThread = Some(threads[1])
    /\ settings = DefaultSettings
    /\ storedSettings = None
    /\ vaultCalls = <<>>

\* The prompt editor with the vault's lock and the demo switch.
PromptSpec == PromptReady /\ [][PromptNext]_vars

\* The provider call of attempt a returns although nothing cancelled it.
\* cancel() and reset() abort the attempt's controller, but adapter.send is
\* given no signal, so aborting does not make the call return.
ReturnsUncancelled(a) ==
    /\ a \in DOMAIN attempts
    /\ ~attempts[a].aborted
    /\ \E outcome \in {"ok", "fail"} : Complete(a, outcome)

\* The orchestrator with providers that answer every call that was not
\* cancelled; a cancelled call may never return. The event loop runs every
\* continuation that is ready (each is part of the Complete step that readies
\* it); the user is not obliged to do anything.
OrchFairSpec ==
    OrchSpec /\ \A a \in 1..MaxAttempts : WF_vars(ReturnsUncancelled(a))

Next == OrchNext \/ VaultNext \/ EditorNext \/ TestNext \/ StoreNext \/ PromptNext
        \/ VaultCallsNext

Spec == Init /\ [][Next]_vars

(***************************************************************************)
(* Properties of the run orchestrator (checked under OrchSpec).            *)
(***************************************************************************)

\* Attempt a's provider call settles in this step.
Completes(a) ==
    /\ a \in DOMAIN attempts
    /\ attempts[a].result = "inflight"
    /\ attempts'[a].result # "inflight"

\* The call run number r made resolves in this step.
RunResolves(r) ==
    /\ r \in DOMAIN runs'
    /\ runs'[r].state = "resolved"
    /\ (r \in DOMAIN runs => runs[r].state = "pending")

\* The step launches no attempt for model id m and is neither a run nor a reset.
SameRun(m) ==
    /\ Len(runs') = Len(runs)
    /\ abortControllers'[m] = abortControllers[m]

\* C1: a task cancelled while its provider call is in flight stays cancelled.
\* cancel(id) and cancel() on an in-flight task abort its controller and write
\* `cancelled`; an aborted in-flight attempt can only end as `cancelled`, its
\* response is never handed to onResponse nor returned by a run; and within the
\* run (no new launch for the id, no other attempt for it in flight) the
\* record stays `cancelled`, also through the completion of the call.
C1_CancelledStaysCancelled ==
    [][/\ \A m \in ModelIds :
            LET c == abortControllers[m]
            IN (c # 0 /\ attempts[c].result = "inflight"
                  /\ (CancelOne(m) \/ CancelAll)
                  /\ StatusOf(statuses, m) \in Transient)
               => (attempts'[c].aborted /\ StatusOf(statuses', m) = "cancelled")
       /\ \A a \in DOMAIN attempts :
            (attempts[a].result = "inflight" /\ attempts[a].aborted)
            => /\ attempts'[a].result \in {"inflight", "cancelled"}
               /\ a \notin delivered'
               /\ \A r \in DOMAIN runs' : a \notin Range(runs'[r].ret)
               /\ (/\ SameRun(attempts[a].modelId)
                   /\ InFlight(attempts, attempts[a].modelId) = {a}
                   /\ StatusOf(statuses, attempts[a].modelId) = "cancelled")
                  => StatusOf(statuses', attempts[a].modelId) = "cancelled"
      ]_vars

\* C1's case: a run's attempt that was cancelled in flight has completed, its
\* record is `cancelled` and the run has resolved without its response.
C1_Witness ==
    \E a \in DOMAIN attempts :
        /\ attempts[a].result = "cancelled"
        /\ attempts[a].run # 0
        /\ runs[attempts[a].run].state = "resolved"
        /\ StatusOf(statuses, attempts[a].modelId) = "cancelled"
        /\ a \notin delivered

\* C2: cancel(id) changes a status record only when task id is pending or
\* running; on a task that is success, error or cancelled (or a second time)
\* it leaves every status record unchanged.
C2_CancelTerminalIsNoOp ==
    [][\A m \in ModelIds :
          (CancelOne(m) /\ StatusOf(statuses, m) \notin Transient)
          => statuses' = statuses
      ]_vars

\* C3 as stated: at the moment a run call resolves no status record is pending
\* or running. (Stated for the latest run, whose tasks the records are.)
C3_NoTransientAtResolve ==
    [][\A r \in DOMAIN runs' :
          (RunResolves(r) /\ r = Len(runs'))
          => \A i \in DOMAIN statuses' : statuses'[i].status \notin Transient
      ]_vars

\* C3 amended: a run call resolves only after every attempt it launched has
\* completed (having written a terminal status); isRunning is then false, and
\* a record that is still pending or running has another attempt, a retry's or
\* another run's, in flight.
C3_ResolvesAfterOwnAttempts ==
    [][\A r \in DOMAIN runs' :
          RunResolves(r)
          => /\ \A a \in AttemptsOf(attempts', r) :
                    attempts'[a].result \in {"response", "error", "cancelled"}
             /\ ~isRunning'
             /\ \A i \in DOMAIN statuses' :
                    statuses'[i].status \in Transient
                    => \E b \in InFlight(attempts', statuses'[i].modelId) :
                           attempts'[b].run # r
      ]_vars

\* C3's case: a run over two models has resolved, one task having succeeded
\* and the other not.
C3_Witness ==
    \E r \in DOMAIN runs :
        /\ runs[r].state = "resolved"
        /\ Cardinality(AttemptsOf(attempts, r)) = 2
        /\ Len(runs[r].ret) = 1
        /\ ~isRunning

SuccessRecords(sts) == {i \in DOMAIN sts : sts[i].status = "success"}

\* C4: the list a run over N model ids returns has at most N elements, as many
\* as there are `success` records when it resolves, and holds exactly the
\* responses of those records: nothing for a task that ended in error or
\* cancelled. (Stated for a run that no other run and no retry overlaps, so
\* that the records are those of the run's own tasks.)
C4_ReturnMatchesSuccessStatuses ==
    [][\A r \in DOMAIN runs' :
          (/\ RunResolves(r)
           /\ Len(runs') = 1
           /\ \A a \in DOMAIN attempts' : attempts'[a].run = r)
          => LET ret == runs'[r].ret
             IN /\ Len(ret) <= Cardinality(AttemptsOf(attempts', r))
                /\ Len(ret) = Cardinality(SuccessRecords(statuses'))
                /\ Range(ret) = {statuses'[i].response : i \in SuccessRecords(statuses')}
      ]_vars

\* The attempts a step launches.
Launched == DOMAIN attempts' \ DOMAIN attempts

\* C5: a failure of one task is recorded in that task's record only. A provider
\* call that throws, or a retry without a credential, writes `error` to the
\* task's record and leaves every other record and every other attempt as it
\* was; a run that finds some credentials missing leaves those tasks in `error`
\* and the others running with their calls in flight; and no run call rejects.
C5_FailureIsolated ==
    [][/\ \A a \in DOMAIN attempts' :
            ((Completes(a) \/ (a \in Launched /\ Len(runs') = Len(runs)))
              /\ attempts'[a].result \in {"error", "threw"})
            => /\ \A i \in DOMAIN statuses' :
                    IF statuses'[i].modelId = attempts'[a].modelId
                    THEN statuses'[i].status = "error"
                    ELSE i \in DOMAIN statuses /\ statuses'[i] = statuses[i]
               /\ Len(statuses') = Len(statuses)
               /\ \A b \in DOMAIN attempts : b # a => attempts'[b] = attempts[b]
       /\ Len(runs') > Len(runs)
          => \A a \in Launched :
                /\ attempts'[a].result \in {"error", "inflight"}
                /\ ~attempts'[a].aborted
                /\ StatusOf(statuses', attempts'[a].modelId) =
                       (IF attempts'[a].result = "error" THEN "error" ELSE "running")
       /\ \A r \in DOMAIN runs' : runs'[r].state # "rejected"
      ]_vars

\* C5's case: in a resolved run one task failed and its sibling, completing
\* afterwards or before, succeeded; the records read error and success.
C5_Witness ==
    \E r \in DOMAIN runs :
        /\ runs[r].state = "resolved"
        /\ \E a, b \in AttemptsOf(attempts, r) :
              /\ attempts[a].result = "error"
              /\ attempts[b].result = "response"
              /\ StatusOf(statuses, attempts[a].modelId) = "error"
              /\ StatusOf(statuses, attempts[b].modelId) = "success"

(***************************************************************************)
(* Properties of the credential vault (checked under VaultSpec).           *)
(***************************************************************************)

\* The stored blob b is what some save under passphrase p wrote, unmodified.
Genuine(b, p) ==
    /\ b # None
    /\ \E keys \in CredSets, n \in 1..MaxSaves :
           Get(b) = encrypt(JSONStringify(keys), p, n, n)

\* C6: when a blob is stored and unlock(passphrase) does not succeed, it
\* returns false and leaves the vault as it was: the locked/unlocked flag, the
\* in-memory credential set and the session cache are unchanged.
C6_FailedUnlockChangesNothing ==
    [][\A p \in Passphrases :
          (Unlock(p) /\ blob # None /\ lastCall'.ret # "true")
          => /\ lastCall'.ret = "false"
             /\ isUnlocked' = isUnlocked
             /\ apiKeys' = apiKeys
             /\ session' = session
      ]_vars

\* C7: for every credential set C and passphrase P, after save(C, P) and then
\* lock(), unlock(P) returns true and the vault is unlocked holding exactly C.
C7_SaveLockUnlockRoundTrip ==
    saveTrail.stage = "unlocked"
    => /\ lastCall.op = "unlock"
       /\ lastCall.ret = "true"
       /\ isUnlocked
       /\ apiKeys = saveTrail.keys

\* C8: unlock succeeds on a stored blob only with the passphrase of the save
\* that wrote it and only if the blob is unmodified. With any other passphrase,
\* or with a blob altered in its salt, iv or ciphertext+tag, unlock returns
\* false and yields no credential set (the vault state is left as it was); and
\* an unlock that returns true holds the credential set that save sealed.
C8_UnlockNeedsGenuineBlob ==
    [][\A p \in Passphrases :
          (Unlock(p) /\ blob # None)
          => /\ ~Genuine(blob, p)
                => /\ lastCall'.ret = "false"
                   /\ apiKeys' = apiKeys
                   /\ isUnlocked' = isUnlocked
                   /\ session' = session
             /\ lastCall'.ret = "true"
                => /\ Genuine(blob, p)
                   /\ Get(blob) = encrypt(JSONStringify(apiKeys'), p,
                                           Atob(Get(blob)).salt, Atob(Get(blob)).iv)
      ]_vars

\* C8's case: on a locked vault, an unlock of a stored blob has failed, the
\* blob being altered or the passphrase not the one it was saved under.
C8_Witness ==
    /\ lastCall.op = "unlock"
    /\ lastCall.ret = "false"
    /\ blob # None
    /\ hasStoredKeys
    /\ ~Genuine(blob, lastCall.pass)
    /\ ~isUnlocked
    /\ apiKeys = EmptyKeys

\* C9: the in-memory credential set is non-empty only while the vault is
\* unlocked: vault locked implies credential set empty.
C9_LockedImpliesNoKeys ==
    ~isUnlocked => apiKeys = EmptyKeys

\* C10: lock() from any state leaves the vault locked with an empty in-memory
\* credential set and both session-cache entries removed, and leaves the
\* persisted blob unchanged.
C10_LockClearsMemoryAndSession ==
    [][Lock
       => /\ ~isUnlocked'
          /\ apiKeys' = EmptyKeys
          /\ session'.pk = None
          /\ session'.unlocked = None
          /\ blob' = blob
      ]_vars

\* C10's case: lock() has been called on a vault that a save had left unlocked
\* with a stored blob.
C10_Witness ==
    /\ lastCall.op = "lock"
    /\ saveTrail.stage = "locked"
    /\ ~BtoaThrows(saveTrail.pass)
    /\ saveTrail.keys # EmptyKeys
    /\ blob # None

\* C11: when no blob is stored, unlock(p) for any passphrase p returns true,
\* caches p in the session store and leaves the vault unlocked with an empty
\* credential set, without writing a blob.
C11_UnlockWithoutBlobSucceeds ==
    [][\A p \in Passphrases :
          (Unlock(p) /\ blob = None)
          => /\ lastCall'.ret = "true"
             /\ getCachedPassphrase(session') = Some(p)
             /\ session'.unlocked = Some("true")
             /\ isUnlocked'
             /\ apiKeys' = EmptyKeys
             /\ blob' = None
      ]_vars

\* C12: save(C, P), in any vault state and with any passphrase P, completes
\* with the vault unlocked, the in-memory credential set equal to C, the blob
\* the encryption of C under P, the has-stored-keys flag true and P in the
\* session cache.
C12_SaveAlwaysUnlocks ==
    [][\A keys \in CredSets, p \in Passphrases :
          Save(keys, p)
          => /\ lastCall'.ret = "void"
             /\ isUnlocked'
             /\ apiKeys' = keys
             /\ Genuine(blob', p)
             /\ JSONParse(decrypt(Get(blob'), p)) = keys
             /\ hasStoredKeys'
             /\ getCachedPassphrase(session') = Some(p)
      ]_vars

\* The passphrase the session cache holds (None when it holds none).
Cached == getCachedPassphrase(session)

C14_DurableHoldsOnlyCiphertext ==
    blob # None
    => LET c == Atob(Get(blob))
       IN /\ c.ct.key.pass \in Passphrases
          /\ c.salt \in 0..MaxSaves
          /\ c.iv \in 0..MaxSaves
          /\ c.ct.key.salt \in 1..MaxSaves
          /\ DOMAIN c = {"salt", "iv", "ct"}

\* C14's case: a credential set is stored, its passphrase cached and the
\* credentials in memory.
C14_Witness ==
    /\ blob # None
    /\ Cached # None
    /\ isUnlocked
    /\ apiKeys # EmptyKeys

(***************************************************************************)
(* Further properties of the run orchestrator (checked under OrchSpec).    *)
(***************************************************************************)

\* The options give no credential for the provider of model id m, outside
\* demo mode.
NoCredential(opts, m) == ~opts.demoMode /\ parseModelId(m) \notin opts.apiKeys

\* The record is that of a task that failed for want of a credential.
IsNoKeyError(s) ==
    /\ s.status = "error"
    /\ s.error = "No API key configured"
    /\ s.canRetry = "true"

\* Every record but that of model id m is the same after the step, and the
\* list holds the same model ids in the same order.
OnlyRecordOf(m) ==
    /\ Len(statuses') = Len(statuses)
    /\ \A i \in DOMAIN statuses :
          /\ statuses'[i].modelId = statuses[i].modelId
          /\ statuses[i].modelId # m => statuses'[i] = statuses[i]

\* C15: outside demo mode, a task whose provider has no credential issues no
\* provider call and ends in `error` with the message 'No API key configured'
\* and canRetry = true, without affecting the other tasks: in a run the tasks
\* that have a credential are running with their calls in flight, and in a
\* retry every other record and attempt is unchanged. An attempt that ended
\* without a call never has one in flight later.
C15_MissingCredentialFailsAtOnce ==
    [][/\ \A ids \in IdLists, opts \in Options :
            Run(ids, opts)
            => \A i \in DOMAIN ids :
                  LET a == Len(attempts) + i
                  IN IF NoCredential(opts, ids[i])
                     THEN /\ attempts'[a].result = "error"
                          /\ statuses'[i].modelId = ids[i]
                          /\ IsNoKeyError(statuses'[i])
                     ELSE /\ attempts'[a].result = "inflight"
                          /\ statuses'[i].modelId = ids[i]
                          /\ statuses'[i].status = "running"
       /\ \A m \in ModelIds, opts \in Options :
            (Retry(m, opts) /\ NoCredential(opts, m))
            => /\ attempts'[Len(attempts) + 1].result = "error"
               /\ \A i \in DOMAIN statuses' :
                     statuses'[i].modelId = m => IsNoKeyError(statuses'[i])
               /\ OnlyRecordOf(m)
               /\ \A b \in DOMAIN attempts : attempts'[b] = attempts[b]
       /\ \A a \in DOMAIN attempts :
            attempts[a].result # "inflight"
            => attempts'[a].result = attempts[a].result
      ]_vars

\* C15's case: in a run over two models one task failed at once for want of
\* a credential and its sibling's call went out and succeeded.
C15_Witness ==
    \E r \in DOMAIN runs :
        \E a, b \in AttemptsOf(attempts, r) :
            /\ attempts[a].result = "error"
            /\ \E i \in DOMAIN statuses :
                  /\ statuses[i].modelId = attempts[a].modelId
                  /\ IsNoKeyError(statuses[i])
            /\ attempts[b].result = "response"
            /\ StatusOf(statuses, attempts[b].modelId) = "success"

\* C16: retry(id, prompt) starts exactly one new attempt for id and changes
\* only id's status record, when it is called and when its attempt completes:
\* no other record changes and the list holds the same model ids in the same
\* order.
C16_RetryTouchesOnlyItsRecord ==
    [][/\ \A m \in ModelIds, opts \in Options :
            Retry(m, opts)
            => /\ Len(attempts') = Len(attempts) + 1
               /\ attempts'[Len(attempts')].modelId = m
               /\ attempts'[Len(attempts')].run = 0
               /\ \A b \in DOMAIN attempts : attempts'[b] = attempts[b]
               /\ OnlyRecordOf(m)
               /\ \A i \in DOMAIN statuses' :
                     statuses'[i].modelId = m
                     => statuses'[i].status \in {"running", "error"}
       /\ \A a \in DOMAIN attempts :
            (Completes(a) /\ attempts[a].run = 0)
            => /\ Len(attempts') = Len(attempts)
               /\ \A b \in DOMAIN attempts : b # a => attempts'[b] = attempts[b]
               /\ OnlyRecordOf(attempts[a].modelId)
      ]_vars

\* C16's case: a retry of a task that had failed has completed with a
\* response; its record reads success and its sibling's record is terminal.
C16_Witness ==
    /\ Len(statuses) = 2
    /\ \E a, b \in DOMAIN attempts :
          /\ attempts[a].run = 0
          /\ attempts[a].result = "response"
          /\ b < a
          /\ attempts[b].modelId = attempts[a].modelId
          /\ attempts[b].result = "error"
          /\ StatusOf(statuses, attempts[a].modelId) = "success"
    /\ \A i \in DOMAIN statuses : statuses[i].status \in Terminal

\* reset() was the last call to launch or clear anything: the status list and
\* the controller map are empty while attempts exist.
PostReset ==
    /\ statuses = <<>>
    /\ abortControllers = NoControllers
    /\ attempts # <<>>

\* C17: reset() leaves an empty status list, isRunning false and every
\* in-flight attempt aborted; a second reset() changes nothing; and the
\* completion of an attempt that was in flight at the reset changes no status
\* record and does not invoke onResponse.
C17_ResetClearsAndSilences ==
    [][/\ Reset
          => /\ statuses' = <<>>
             /\ ~isRunning'
             /\ \A a \in DOMAIN attempts :
                   attempts[a].result = "inflight" => attempts'[a].aborted
       /\ (Reset /\ PostReset /\ ~isRunning) => UNCHANGED orchVars
       /\ \A a \in DOMAIN attempts :
            (Completes(a) /\ PostReset)
            => /\ statuses' = statuses
               /\ a \notin delivered'
      ]_vars

\* C18: cancel() with no id marks every pending or running task cancelled and
\* leaves every task that is success, error or cancelled unchanged.
C18_CancelAllOnlyTransient ==
    [][CancelAll
       => /\ Len(statuses') = Len(statuses)
          /\ \A i \in DOMAIN statuses :
                IF statuses[i].status \in Transient
                THEN statuses'[i] = [statuses[i] EXCEPT !.status = "cancelled"]
                ELSE statuses'[i] = statuses[i]
      ]_vars

\* C18's case: of two tasks one was cancelled with its call in flight and the
\* other, already terminal, kept its status.
C18_Witness ==
    \E a, b \in DOMAIN attempts :
        /\ attempts[a].run = attempts[b].run
        /\ attempts[a].result = "inflight"
        /\ attempts[a].aborted
        /\ StatusOf(statuses, attempts[a].modelId) = "cancelled"
        /\ attempts[b].result \in {"response", "error"}
        /\ attempts[b].modelId # attempts[a].modelId
        /\ StatusOf(statuses, attempts[b].modelId) \in {"success", "error"}

\* C19: cancel(id) affects only task id: every other record and every other
\* attempt is unchanged by the call, and an in-flight attempt that was not
\* aborted still completes as success or error, so recorded.
C19_CancelOneIsolated ==
    [][/\ \A m \in ModelIds :
            CancelOne(m)
            => /\ OnlyRecordOf(m)
               /\ \A b \in DOMAIN attempts :
                     attempts[b].modelId # m => attempts'[b] = attempts[b]
       /\ \A a \in DOMAIN attempts :
            (Completes(a) /\ ~attempts[a].aborted)
            => /\ attempts'[a].result \in {"response", "error"}
               /\ \A i \in DOMAIN statuses' :
                     statuses'[i].modelId = attempts[a].modelId
                     => statuses'[i].status =
                           (IF attempts'[a].result = "response"
                            THEN "success" ELSE "error")
      ]_vars

\* C19's case: one task was cancelled in flight and its sibling, left alone,
\* has completed and reads success.
C19_Witness ==
    \E a, b \in DOMAIN attempts :
        /\ attempts[a].run = attempts[b].run
        /\ attempts[a].run # 0
        /\ attempts[a].result = "cancelled"
        /\ StatusOf(statuses, attempts[a].modelId) = "cancelled"
        /\ attempts[b].modelId # attempts[a].modelId
        /\ attempts[b].result = "response"
        /\ ~attempts[b].aborted
        /\ StatusOf(statuses, attempts[b].modelId) = "success"

\* C20: a task whose status is `error` carries an error message and has
\* canRetry = true.
C20_ErrorCarriesMessageAndRetry ==
    \A i \in DOMAIN statuses :
        statuses[i].status = "error"
        => /\ statuses[i].error \in {"No API key configured", "provider error"}
           /\ statuses[i].canRetry = "true"

\* C20's case: a task whose provider call threw reads error, and had been
\* retried (its record cleared to running) before.
C20_Witness ==
    \E a \in DOMAIN attempts :
        /\ attempts[a].run = 0
        /\ attempts[a].result = "error"
        /\ \E i \in DOMAIN statuses :
              /\ statuses[i].modelId = attempts[a].modelId
              /\ statuses[i].status = "error"
              /\ statuses[i].error = "provider error"

(***************************************************************************)
(* Properties of rule evaluation (checked under SimSpec).                  *)
(***************************************************************************)

\* The evaluation has been made and this is what it returned.
Evaluated == simulationResult # None

Result == Get(simulationResult)

\* The positions of the rules that are enabled and match the input.
EnabledMatches ==
    {i \in DOMAIN localRules :
        /\ localRules[i].enabled = "true"
        /\ RuleMatches(localRules[i], preset, simulatePromptLength)}

\* C21: evaluation returns the first rule, in list order, that is enabled and
\* matches; a disabled rule is never returned, a later match is never
\* preferred to an earlier one, and there is no match when no enabled rule
\* matches.
C21_FirstEnabledMatchWins ==
    Evaluated
    => IF EnabledMatches = {}
       THEN Result.matchedRule = None /\ Result.selectedModels = <<>>
       ELSE LET first == CHOOSE i \in EnabledMatches : \A j \in EnabledMatches : i <= j
            IN /\ Result.matchedRule = Some(localRules[first])
               /\ Result.selectedModels = localRules[first].preferredModels

\* C21's case: a rule without conditions stands before a more specific rule
\* that matches as well, and the first one is returned.
C21_Witness ==
    /\ Evaluated
    /\ Len(localRules) = 2
    /\ EnabledMatches = {1, 2}
    /\ localRules[1].condition = NoCondition
    /\ localRules[2].condition.preset = "code"
    /\ localRules[2].condition.contentLength = "long"
    /\ Result.matchedRule = Some(localRules[1])

\* What the condition of a rule asks of an input, field by field; the bucket
\* is the one simulateRouting computes.
ConditionHolds(cond) ==
    /\ cond.preset = Undefined \/ cond.preset = preset
    /\ cond.contentLength = Undefined
       \/ cond.contentLength = contentLength(simulatePromptLength)
    /\ cond.hasCode = Undefined \/ (cond.hasCode = "true") = promptHasCode

\* C22: a rule matches an input exactly when every condition field it
\* specifies equals the input's value (preset, bucket, code presence) and
\* every omitted field matches anything; in particular a rule requiring
\* hasCode = true matches an input that contains code.
C22_MatchesIffEveryFieldEqual ==
    (Evaluated /\ Len(localRules) = 1 /\ localRules[1].enabled = "true")
    => (Result.matchedRule = Some(localRules[1])
        <=> ConditionHolds(localRules[1].condition))

\* The bucket the labels of the editor give a prompt length.
LabelledBucket(n) ==
    IF n < 500 THEN "short" ELSE IF n <= 2000 THEN "medium" ELSE "long"

\* C23: a prompt of n characters is short when n < 500, medium when
\* 500 <= n <= 2000 and long when n > 2000, so a rule asking for one bucket
\* only is matched exactly by the prompts of that bucket.
C23_BucketsAsLabelled ==
    (/\ Evaluated
     /\ Len(localRules) = 1
     /\ localRules[1].enabled = "true"
     /\ localRules[1].condition.preset = Undefined
     /\ localRules[1].condition.hasCode = Undefined
     /\ localRules[1].condition.contentLength # Undefined)
    => (Result.matchedRule = Some(localRules[1])
        <=> localRules[1].condition.contentLength = LabelledBucket(simulatePromptLength))

(***************************************************************************)
(* Properties of the rule editor (checked under EditorSpec).               *)
(***************************************************************************)

\* The rule passes the three checks Save is to make.
ValidRule(rule) ==
    /\ Len(Trim(rule.name)) > 0
    /\ Len(rule.preferredModels) > 0
    /\ \A m \in Range(rule.preferredModels) : m \in Range(AVAILABLE_MODELS)

\* C25: Save never persists a list holding a rule with an empty or
\* whitespace-only name, no preferred model or an unknown model; when a rule
\* of the list is invalid the save is rejected and the persisted rules are
\* unchanged, whichever edit path produced the list.
C25_SaveRejectsInvalidRules ==
    [][handleSave
       => IF \A r \in Range(localRules) : ValidRule(r)
          THEN storedRules' = Some(JSONStringify(localRules))
          ELSE UNCHANGED <<storedRules, routingRules>>
      ]_vars

\* C26: a list typed as raw JSON is accepted only if every element satisfies
\* the rule schema; a list with an element that violates it does not become
\* the editor's list.
C26_JsonAcceptedOnlyIfSchemaHolds ==
    [][\A text \in JsonTexts :
          (/\ handleJsonChange(text)
           /\ text.kind = "array"
           /\ \E r \in Range(JSONParse(text)) : ~ROUTING_RULE_SCHEMA(r))
          => (UNCHANGED localRules /\ jsonError' # None)
      ]_vars

\* Simulating and editing commit nothing: a step that changes the persisted
\* rules or the active list is a Save made while no error is recorded under
\* the id of any rule of the list.
OnlyUnflaggedSaveCommits ==
    [][(storedRules' # storedRules \/ routingRules' # routingRules)
       => /\ handleSave
          /\ \A i \in DOMAIN localRules :
                ruleErrors(localRules)[localRules[i].id] = <<>>
      ]_vars

\* C27: simulating and editing never change the persisted rules or the
\* active rule list; a step that changes either is a Save of a list whose
\* validation gives no error for any rule.
C27_OnlySaveWithoutErrorsCommits ==
    [][(storedRules' # storedRules \/ routingRules' # routingRules)
       => /\ handleSave
          /\ \A r \in Range(localRules) : validateRule(r) = <<>>
      ]_vars

(***************************************************************************)
(* Properties of the connection tests (checked under TestSpec).            *)
(***************************************************************************)

\* C28: testConnection of every adapter never throws or rejects: it settles
\* with true or false, and with false when the request failed or was
\* answered with an error.
C28_TestConnectionNeverRejects ==
    \A p \in TestProviders :
        probes[p].stage = "settled"
        => /\ probes[p].returned \in {"true", "false"}
           /\ probes[p].outcome \in {"fails", "notok"} => probes[p].returned = "false"
           /\ testResults[p] = probes[p].returned
           /\ ~testing[p]

\* C28's case: a request failed and a key could not be sent at all, and both
\* tests settled with false.
C28_Witness ==
    /\ probes["gemini"].stage = "settled"
    /\ probes["gemini"].outcome = "fails"
    /\ testResults["gemini"] = "false"
    /\ probes["openai"].stage = "settled"
    /\ probes["openai"].outcome = "ok"
    /\ probes["openai"].key = <<115, 107, 45, 9911>>
    /\ testResults["openai"] = "false"
    /\ probes["anthropic"].stage = "settled"
    /\ testResults["anthropic"] = "true"

(***************************************************************************)
(* Properties of storage (checked under StoreSpec and VaultSpec).          *)
(***************************************************************************)

\* C29: every stored message's threadId refers to a stored thread and every
\* stored thread's workspaceId to a stored workspace, so that after
\* deleteWorkspace(id) no thread or message of that workspace is stored.
C29_NoOrphans ==
    /\ \A i \in DOMAIN messages :
          \E j \in DOMAIN threads : threads[j].id = messages[i].threadId
    /\ \A j \in DOMAIN threads :
          \E k \in DOMAIN workspaces : workspaces[k].id = threads[j].workspaceId

\* C30: once "Clear All Local Data" was confirmed in Settings, storage holds
\* no workspace, thread, message or encrypted blob, the session store is
\* empty, and the vault is locked with no stored keys.
C30_SettingsClearLeavesNothing ==
    lastCall.op = "settingsClear"
    => /\ workspaces = <<>> /\ threads = <<>> /\ messages = <<>>
       /\ blob = None
       /\ session = NoSession
       /\ ~isUnlocked
       /\ ~hasStoredKeys

(***************************************************************************)
(* Termination of a cancelled run (checked under OrchFairSpec).            *)
(***************************************************************************)

\* cancel() has left no pending or running record while the call run number
\* r made is pending and is the latest.
CancelledRun(r) ==
    /\ r = Len(runs)
    /\ runs[r].state = "pending"
    /\ statuses # <<>>
    /\ \A i \in DOMAIN statuses : statuses[i].status \in Terminal
    /\ \E i \in DOMAIN statuses : statuses[i].status = "cancelled"

\* C31: once cancel() has marked every non-terminal task of a run cancelled,
\* the pending run() call eventually resolves with isRunning false, even if
\* the provider call of a cancelled task never returns.
C31_CancelledRunResolves ==
    \A r \in 1..MaxRuns :
        CancelledRun(r) ~> (r \in DOMAIN runs /\ runs[r].state = "resolved" /\ ~isRunning)

(***************************************************************************)
(* Completions that outlive their run (checked under OrchSpec).            *)
(***************************************************************************)

\* C32: the completion of an attempt that an earlier run() launched changes
\* no status record of the later run and does not invoke onResponse, even
\* when both runs hold the attempt's model id.
C32_StaleCompletionIsSilent ==
    [][\A a \in DOMAIN attempts :
          (Completes(a) /\ attempts[a].run \in 1..(Len(runs) - 1))
          => /\ statuses' = statuses
             /\ a \notin delivered'
      ]_vars

\* C34: whenever a task is pending or running, isRunning is true (and so
\* "Cancel All" is offered), also while a retry attempt is in flight.
C34_TransientImpliesRunning ==
    (\E i \in DOMAIN statuses : statuses[i].status \in Transient) => isRunning

(***************************************************************************)
(* What the rule editor opens with (checked under EditorSpec).             *)
(***************************************************************************)

\* C38: whenever the rule editor is opened, the list it shows and edits is
\* the persisted rule set (what getRoutingRules() returns), whatever was
\* edited and abandoned before.
C38_EditorOpensOnPersistedRules ==
    [][OpenEditor => localRules' = getRoutingRules(storedRules')]_vars

(***************************************************************************)
(* Properties of the prompt editor (checked under PromptSpec).             *)
(***************************************************************************)

\* C33: the editor calls run() only while the Run button's enabling condition
\* holds (a prompt that is not blank, isRunning false, a model selected, demo
\* mode on or the vault unlocked), by the button or by Cmd/Ctrl+Enter, and so
\* at most one run() call is pending at any time.
C33_RunOnlyWhenEnabled ==
    [][/\ Len(runs') > Len(runs) => ~RunDisabled
       /\ Cardinality({r \in DOMAIN runs' : runs'[r].state = "pending"}) <= 1
      ]_vars

\* The assistant messages that hold the response of attempt a.
AssistantMessages(a) ==
    {i \in DOMAIN messages :
        messages[i].role = "assistant" /\ messages[i].response = a}

\* C35: the current thread holds exactly one assistant message for each
\* attempt that ended with a response, of run or of retry, and none for an
\* attempt that was cancelled or failed.
C35_OneMessagePerResponse ==
    \A a \in DOMAIN attempts :
        /\ Cardinality(AssistantMessages(a)) =
              IF attempts[a].result = "response" THEN 1 ELSE 0
        /\ \A i \in AssistantMessages(a) :
              currentThread # None /\ messages[i].threadId = Get(currentThread).id

(***************************************************************************)
(* Properties of the vault's interleaved calls (checked under              *)
(* VaultCallsSpec).                                                        *)
(***************************************************************************)

\* C36: once no unlock or save call is in flight, a cached passphrase
\* decrypts the stored blob when there is one, and the credential set of an
\* unlocked vault is the blob's plaintext.
C36_QuiescentVaultIsConsistent ==
    InFlightCalls = {}
    => /\ (getCachedPassphrase(session) # None /\ blob # None)
          => DecryptOk(Get(blob), Get(getCachedPassphrase(session)))
       /\ (isUnlocked /\ blob # None)
          => apiKeys = JSONParse(Atob(Get(blob)).ct.pt)

\* C37: when lock() was the vault's latest call and a call that was in flight
\* at that time finishes, the vault stays locked with an empty credential set
\* and an empty session cache.
C37_LockOutlastsCallsInFlight ==
    [][\A c \in InFlightCalls :
          (lastCall.op = "lock" /\ vaultCalls'[c].state = "done")
          => /\ ~isUnlocked'
             /\ apiKeys' = EmptyKeys
             /\ session' = NoSession
      ]_vars
====
